---------------------------- MODULE Spec2Model ----------------------------
(***************************************************************************)
(* The active-rules calculator of libcalico-go                              *)
(* (etcd-driver/ipsets/active_rules_calculator.go): the caches of policies  *)
(* and profile rules, the policy/profile -> endpoint maps, the label        *)
(* inheritance index and the endpoint -> profile IDs map it composes, and   *)
(* the calls it makes on its rule listener, match listener and Felix        *)
(* sender.  One action per case of OnUpdate's type switch.                  *)
(***************************************************************************)
EXTENDS Naturals, Sequences, FiniteSets, TLC

VARIABLES
    allPolicies,              \* map[backend.PolicyKey]backend.Policy
    allProfileRules,          \* map[string]backend.ProfileRules
    policyIDToEndpointKeys,   \* map[backend.PolicyKey]map[endpointKey]bool
    profileIDToEndpointKeys,  \* map[string]map[endpointKey]bool
    labelIndex,               \* labels.LabelInheritanceIndex
    endpointKeyToProfileIDs,  \* *tags.EndpointKeyToProfileIDMap
    aborted,                  \* glog.Fatal was reached: the process is gone
    calls,                    \* the listener/sender calls of the last OnUpdate, in order
    lastUpdate,               \* the update the last OnUpdate was given
    before,                   \* the two active maps, and the datastore's value for
                              \* the update's key, before the last OnUpdate
    lastListener,             \* per entity, the arguments of the last UpdateRules
    lastFelix,                \* per Felix key, the value of the last SendUpdateToFelix
    datastore,                \* per kind and key, the value of the last update delivered
    selTest,                  \* a selector's text on its way through Parse, String,
                              \* Parse again and Evaluate
    keyTest                   \* a PolicyKey and the paths computed from it

calculatorVars ==
    <<allPolicies, allProfileRules, policyIDToEndpointKeys,
      profileIDToEndpointKeys, labelIndex, endpointKeyToProfileIDs,
      aborted, calls, lastUpdate, before, lastListener, lastFelix,
      datastore>>

vars == <<allPolicies, allProfileRules, policyIDToEndpointKeys,
          profileIDToEndpointKeys, labelIndex, endpointKeyToProfileIDs,
          aborted, calls, lastUpdate, before, lastListener, lastFelix,
          datastore, selTest, keyTest>>

-----------------------------------------------------------------------------
(* The keys and values the update streams are made of.                      *)

\* How many workload endpoints the update streams name.
NumWorkloadEndpoints == 1

\* An optional value: absent, or present with its content.
None == <<>>

Some(v) == <<v>>

EmptyMap == <<>>

WorkloadEndpointKeys ==
    { [Hostname |-> "host", OrchestratorID |-> "orch", WorkloadID |-> ToString(i),
       EndpointID |-> "eth0"] : i \in 1..NumWorkloadEndpoints }

HostEndpointKeys == { [Hostname |-> "host", EndpointID |-> "eth0"] }

EndpointKeys == WorkloadEndpointKeys \cup HostEndpointKeys

PolicyKeys == { [Tier |-> "default", Name |-> n] : n \in {"k1", "k2"} }

ProfileIDs == {"p1", "p2"}

LabelKeys == {"role"}

LabelValues == {"db", "web"}

\* Every label map over LabelKeys: a function from the keys it sets.
LabelMaps ==
    UNION { [ks -> LabelValues] : ks \in SUBSET LabelKeys }

NoLabels == [k \in {} |-> "db"]

\* The profile ID lists an endpoint may carry (order and repeats matter).
ProfileIDLists ==
    { <<>>, <<"p1">>, <<"p2">>, <<"p1", "p1">>, <<"p1", "p2">>, <<"p2", "p1">> }

\* Rules are opaque payload; a ProfileRules value is two lists of them.
ProfileRulesValues ==
    { [InboundRules |-> <<"allow">>, OutboundRules |-> <<>>],
      [InboundRules |-> <<"deny">>, OutboundRules |-> <<"allow">>] }

\* The selector strings policies carry; "role" (a bare label) is one of the
\* parser's badSelectors.
SelectorStrings ==
    { "all()", "role == \"db\"", "!has(role)", "role" }

\* A policy's value: its rules and order are payload, its selector a string.
PolicyValues(selectors) ==
    { [Order |-> None, InboundRules |-> <<"allow">>, OutboundRules |-> <<>>,
       Selector |-> s] : s \in selectors }
    \cup
    { [Order |-> Some(10), InboundRules |-> <<"deny">>, OutboundRules |-> <<"allow">>,
       Selector |-> s] : s \in selectors }

\* Every update for the keys, with each of the values or with none (a
\* tombstone).
Updates(kind, keys, values) ==
    { [kind |-> kind, key |-> k, value |-> v] :
        k \in keys, v \in {None} \cup { Some(x) : x \in values } }

-----------------------------------------------------------------------------
(* lib/selector: the expression tree, its evaluation and the parser.        *)

Range(seq) == { seq[i] : i \in DOMAIN seq }

\* In and NotIn keep their literals in source order.
SelAll           == [op |-> "all"]
SelHas(k)        == [op |-> "has", key |-> k]
SelEqual(k, v)   == [op |-> "eq", key |-> k, value |-> v]
SelNotEqual(k, v) == [op |-> "ne", key |-> k, value |-> v]
SelIn(k, vs)     == [op |-> "in", key |-> k, values |-> vs]
SelNotIn(k, vs)  == [op |-> "notin", key |-> k, values |-> vs]
SelNot(e)        == [op |-> "not", arg |-> e]
SelAnd(a, b)     == [op |-> "and", left |-> a, right |-> b]
SelOr(a, b)      == [op |-> "or", left |-> a, right |-> b]

RECURSIVE Evaluate(_, _)
\* An evaluation in which != and not in need the key to be present.
EvaluatePresentOnly(sel, labels) ==
    CASE sel.op = "all"   -> TRUE
      [] sel.op = "has"   -> sel.key \in DOMAIN labels
      [] sel.op = "eq"    -> sel.key \in DOMAIN labels /\ labels[sel.key] = sel.value
      [] sel.op = "ne"    -> sel.key \in DOMAIN labels /\ labels[sel.key] # sel.value
      [] sel.op = "in"    -> sel.key \in DOMAIN labels
                             /\ labels[sel.key] \in Range(sel.values)
      [] sel.op = "notin" -> sel.key \in DOMAIN labels
                             /\ labels[sel.key] \notin Range(sel.values)
      [] sel.op = "not"   -> ~Evaluate(sel.arg, labels)
      [] sel.op = "and"   -> Evaluate(sel.left, labels) /\ Evaluate(sel.right, labels)
      [] sel.op = "or"    -> Evaluate(sel.left, labels) \/ Evaluate(sel.right, labels)

\* Selector.Evaluate(labels): absent keys make ==, in and has false, and
\* != and not in true.
Evaluate(sel, labels) ==
    CASE sel.op = "all"   -> TRUE
      [] sel.op = "has"   -> sel.key \in DOMAIN labels
      [] sel.op = "eq"    -> sel.key \in DOMAIN labels /\ labels[sel.key] = sel.value
      [] sel.op = "ne"    -> ~(sel.key \in DOMAIN labels /\ labels[sel.key] = sel.value)
      [] sel.op = "in"    -> sel.key \in DOMAIN labels
                             /\ labels[sel.key] \in Range(sel.values)
      [] sel.op = "notin" -> ~(sel.key \in DOMAIN labels
                               /\ labels[sel.key] \in Range(sel.values))
      [] sel.op = "not"   -> ~Evaluate(sel.arg, labels)
      [] sel.op = "and"   -> Evaluate(sel.left, labels) /\ Evaluate(sel.right, labels)
      [] sel.op = "or"    -> Evaluate(sel.left, labels) \/ Evaluate(sel.right, labels)

\* selector.Parse on the strings above: the tree, or the error.
Parse(s) ==
    CASE s = "all()"           -> [sel |-> Some(SelAll), err |-> None]
      [] s = "role == \"db\""  -> [sel |-> Some(SelEqual("role", "db")), err |-> None]
      [] s = "!has(role)"      -> [sel |-> Some(SelNot(SelHas("role"))), err |-> None]
      [] OTHER                 -> [sel |-> None, err |-> Some("SyntaxError")]

-----------------------------------------------------------------------------
(* lib/selector/parser: a selector's text, as the sequence of its           *)
(* characters, parsed by the grammar                                        *)
(*   selector = ws [ orExpr ] ws                                            *)
(*   orExpr   = andExpr *( ws "||" ws andExpr )                             *)
(*   andExpr  = notExpr *( ws "&&" ws notExpr )                             *)
(*   notExpr  = *( "!" ws ) primary                                         *)
(*   primary  = "(" ws orExpr ws ")" | "all()" | cmp | hasExpr | inExpr     *)
(*   cmp      = ident ws ("=="|"!=") ws literal                             *)
(*   hasExpr  = "has(" ws ident ws ")"                                      *)
(*   inExpr   = ident ws ("in"|"not in") ws "{" ws [ literal *(ws ","      *)
(*              ws literal) ] ws "}"                                        *)
(* and written back in canonical form.                                      *)

Letters ==
    { "a", "b", "c", "d", "e", "f", "g", "h", "i", "j", "k", "l", "m",
      "n", "o", "p", "q", "r", "s", "t", "u", "v", "w", "x", "y", "z" }
    \cup
    { "A", "B", "C", "D", "E", "F", "G", "H", "I", "J", "K", "L", "M",
      "N", "O", "P", "Q", "R", "S", "T", "U", "V", "W", "X", "Y", "Z" }

Digits == { "0", "1", "2", "3", "4", "5", "6", "7", "8", "9" }

IdentStart == Letters \cup {"_"}

IdentChars == Letters \cup Digits \cup {"_", ".", "/", "-"}

Space == " "

DQuote == "\""

SQuote == "'"

\* `word` stands in `text` at position pos.
HasAt(text, pos, word) ==
    /\ pos + Len(word) - 1 <= Len(text)
    /\ \A i \in 1..Len(word) : text[pos + i - 1] = word[i]

RECURSIVE SkipWs(_, _)
\* The first position at or after pos that holds no white space.
SkipWs(text, pos) ==
    IF pos <= Len(text) /\ text[pos] = Space THEN SkipWs(text, pos + 1) ELSE pos

RECURSIVE IdentEnd(_, _)
\* The first position at or after pos that holds no identifier character.
IdentEnd(text, pos) ==
    IF pos <= Len(text) /\ text[pos] \in IdentChars
    THEN IdentEnd(text, pos + 1) ELSE pos

RECURSIVE QuoteEnd(_, _, _)
\* The position of the next `quote` at or after pos; 0 if there is none.
QuoteEnd(text, pos, quote) ==
    IF pos > Len(text) THEN 0
    ELSE IF text[pos] = quote THEN pos
    ELSE QuoteEnd(text, pos + 1, quote)

\* A parsing step's result: the tree (or value) read and the position after
\* it, or the error.
Parsed(tree, pos) == [ok |-> TRUE, tree |-> tree, pos |-> pos]

SyntaxError(pos, msg) == [ok |-> FALSE, pos |-> pos, msg |-> msg]

\* The literal that opens at pos and closes at `end` (0: it never closes).
LiteralUpTo(text, pos, end) ==
    IF end = 0 THEN SyntaxError(pos, "unterminated string literal")
    ELSE Parsed(SubSeq(text, pos + 1, end - 1), end + 1)

\* literal = DQUOTE *char DQUOTE | SQUOTE *char SQUOTE
ParseLiteral(text, pos) ==
    IF pos <= Len(text) /\ text[pos] \in {DQuote, SQuote}
    THEN LiteralUpTo(text, pos, QuoteEnd(text, pos + 1, text[pos]))
    ELSE SyntaxError(pos, "expected a literal")

RECURSIVE ParseSetTail(_, _, _)

\* The set goes on after the member just read, if it was read.
SetMember(text, members, lit) ==
    IF lit.ok THEN ParseSetTail(text, Append(members, lit.tree), lit.pos)
    ELSE lit

\* The set's end, or its next member, at p.
SetTailAt(text, members, p) ==
    IF HasAt(text, p, <<"}">>) THEN Parsed(members, p + 1)
    ELSE IF HasAt(text, p, <<",">>)
    THEN SetMember(text, members, ParseLiteral(text, SkipWs(text, p + 1)))
    ELSE SyntaxError(p, "expected , or }")

\* *( ws "," ws literal ) ws "}", after the literals in `members`.
ParseSetTail(text, members, pos) == SetTailAt(text, members, SkipWs(text, pos))

\* The set's end, or its first member, at p.
SetFrom(text, p) ==
    IF HasAt(text, p, <<"}">>) THEN Parsed(<<>>, p + 1)
    ELSE SetMember(text, <<>>, ParseLiteral(text, p))

\* "{" ws [ literal *( ws "," ws literal ) ] ws "}", `pos` at the "{".
ParseSet(text, pos) ==
    IF ~HasAt(text, pos, <<"{">>) THEN SyntaxError(pos, "expected {")
    ELSE SetFrom(text, SkipWs(text, pos + 1))

\* The keyword `word` stands at pos and is not the start of a longer
\* identifier.
KeywordAt(text, pos, word) ==
    /\ HasAt(text, pos, word)
    /\ (pos + Len(word) > Len(text) \/ text[pos + Len(word)] \notin IdentChars)

\* The leaf for the comparator, once its operand has been read.
Compared(op, ident, operand) ==
    IF ~operand.ok THEN operand
    ELSE Parsed(CASE op = "eq"    -> SelEqual(ident, operand.tree)
                  [] op = "ne"    -> SelNotEqual(ident, operand.tree)
                  [] op = "in"    -> SelIn(ident, operand.tree)
                  [] op = "notin" -> SelNotIn(ident, operand.tree),
                operand.pos)

\* The comparator at p and its operand.
ComparisonAt(text, ident, p) ==
    IF HasAt(text, p, <<"=", "=">>)
    THEN Compared("eq", ident, ParseLiteral(text, SkipWs(text, p + 2)))
    ELSE IF HasAt(text, p, <<"!", "=">>)
    THEN Compared("ne", ident, ParseLiteral(text, SkipWs(text, p + 2)))
    ELSE IF KeywordAt(text, p, <<"i", "n">>)
    THEN Compared("in", ident, ParseSet(text, SkipWs(text, p + 2)))
    ELSE IF KeywordAt(text, p, <<"n", "o", "t", " ", "i", "n">>)
    THEN Compared("notin", ident, ParseSet(text, SkipWs(text, p + 6)))
    ELSE SyntaxError(p, "bare identifier not followed by a comparator")

\* The identifier from pos up to e, and what follows it.
ComparisonFrom(text, pos, e) ==
    ComparisonAt(text, SubSeq(text, pos, e - 1), SkipWs(text, e))

\* cmp and inExpr: an identifier, then its comparator and operand.
ParseComparison(text, pos) == ComparisonFrom(text, pos, IdentEnd(text, pos))

\* The ")" of has( ident ), at q.
HasClose(text, ident, q) ==
    IF HasAt(text, q, <<")">>) THEN Parsed(SelHas(ident), q + 1)
    ELSE SyntaxError(q, "unmatched parenthesis")

\* The identifier of has( ident ), from p up to e.
HasIdent(text, p, e) == HasClose(text, SubSeq(text, p, e - 1), SkipWs(text, e))

HasFrom(text, p) ==
    IF p <= Len(text) /\ text[p] \in IdentStart
    THEN HasIdent(text, p, IdentEnd(text, p))
    ELSE SyntaxError(p, "expected an identifier")

\* hasExpr, `pos` after "has(".
ParseHas(text, pos) == HasFrom(text, SkipWs(text, pos))

RECURSIVE ParseOrExpr(_, _)
RECURSIVE ParseOrTail(_, _, _)
RECURSIVE ParseAndExpr(_, _)
RECURSIVE ParseAndTail(_, _, _)
RECURSIVE ParseNotExpr(_, _)
RECURSIVE ParsePrimary(_, _)

\* The ")" of a parenthesised expression, at q.
CloseParen(text, tree, q) ==
    IF HasAt(text, q, <<")">>) THEN Parsed(tree, q + 1)
    ELSE SyntaxError(q, "unmatched parenthesis")

\* "(" ws orExpr ws ")", once the inner expression has been read.
Parenthesised(text, inner) ==
    IF ~inner.ok THEN inner
    ELSE CloseParen(text, inner.tree, SkipWs(text, inner.pos))

ParsePrimary(text, pos) ==
    IF pos > Len(text) THEN SyntaxError(pos, "unexpected end of expression")
    ELSE IF text[pos] = "("
    THEN Parenthesised(text, ParseOrExpr(text, SkipWs(text, pos + 1)))
    ELSE IF HasAt(text, pos, <<"a", "l", "l", "(", ")">>)
    THEN Parsed(SelAll, pos + 5)
    ELSE IF HasAt(text, pos, <<"h", "a", "s", "(">>)
    THEN ParseHas(text, pos + 4)
    ELSE IF text[pos] \in IdentStart
    THEN ParseComparison(text, pos)
    ELSE IF text[pos] \in {DQuote, SQuote}
    THEN SyntaxError(pos, "literal on the left of a comparator")
    ELSE SyntaxError(pos, "unexpected character")

\* The negation of the operand, if it was read.
Negated(operand) ==
    IF operand.ok THEN Parsed(SelNot(operand.tree), operand.pos) ELSE operand

\* notExpr = *( "!" ws ) primary
ParseNotExpr(text, pos) ==
    IF HasAt(text, pos, <<"!">>)
    THEN Negated(ParseNotExpr(text, SkipWs(text, pos + 1)))
    ELSE ParsePrimary(text, pos)

\* The conjunction goes on after its right operand, if it was read.
AndRight(text, left, right) ==
    IF right.ok THEN ParseAndTail(text, SelAnd(left, right.tree), right.pos)
    ELSE right

AndTailAt(text, left, pos, p) ==
    IF HasAt(text, p, <<"&", "&">>)
    THEN AndRight(text, left, ParseNotExpr(text, SkipWs(text, p + 2)))
    ELSE Parsed(left, pos)

\* *( ws "&&" ws notExpr ), after the operand `left`.
ParseAndTail(text, left, pos) == AndTailAt(text, left, pos, SkipWs(text, pos))

AndLeft(text, first) ==
    IF first.ok THEN ParseAndTail(text, first.tree, first.pos) ELSE first

ParseAndExpr(text, pos) == AndLeft(text, ParseNotExpr(text, pos))

\* The disjunction goes on after its right operand, if it was read.
OrRight(text, left, right) ==
    IF right.ok THEN ParseOrTail(text, SelOr(left, right.tree), right.pos)
    ELSE right

OrTailAt(text, left, pos, p) ==
    IF HasAt(text, p, <<"|", "|">>)
    THEN OrRight(text, left, ParseAndExpr(text, SkipWs(text, p + 2)))
    ELSE Parsed(left, pos)

\* *( ws "||" ws andExpr ), after the operand `left`.
ParseOrTail(text, left, pos) == OrTailAt(text, left, pos, SkipWs(text, pos))

OrLeft(text, first) ==
    IF first.ok THEN ParseOrTail(text, first.tree, first.pos) ELSE first

ParseOrExpr(text, pos) == OrLeft(text, ParseAndExpr(text, pos))

\* Nothing but white space may follow the expression, at q.
SelectorEnd(text, expr, q) ==
    IF q > Len(text) THEN expr ELSE SyntaxError(q, "unexpected character")

SelectorExpr(text, expr) ==
    IF ~expr.ok THEN expr
    ELSE SelectorEnd(text, expr, SkipWs(text, expr.pos))

SelectorFrom(text, p) ==
    IF p > Len(text) THEN Parsed(SelAll, p)
    ELSE SelectorExpr(text, ParseOrExpr(text, p))

\* selector = ws [ orExpr ] ws: the empty expression is All.
ParseSelector(text) == SelectorFrom(text, SkipWs(text, 1))

\* A literal in double quotes whatever it holds.
QuoteAlwaysDouble(v) == <<DQuote>> \o v \o <<DQuote>>

\* A literal in quotes: double quotes unless it holds one, then single.
Quote(v) ==
    IF DQuote \in Range(v) THEN <<SQuote>> \o v \o <<SQuote>>
    ELSE <<DQuote>> \o v \o <<DQuote>>

RECURSIVE QuoteEach(_)
\* The literals quoted, with ", " between them.
QuoteEach(vs) ==
    IF vs = <<>> THEN <<>>
    ELSE IF Len(vs) = 1 THEN Quote(vs[1])
    ELSE Quote(Head(vs)) \o <<",", " ">> \o QuoteEach(Tail(vs))

IsCompound(sel) == sel.op \in {"and", "or"}

\* The operand written without its parentheses.
InParensOmitted(text) == text

InParens(text) == <<"(">> \o text \o <<")">>

RECURSIVE String(_)
\* Selector.String(): the canonical text of the tree.
String(sel) ==
    CASE sel.op = "all"   -> <<"a", "l", "l", "(", ")">>
      [] sel.op = "has"   -> <<"h", "a", "s", "(">> \o sel.key \o <<")">>
      [] sel.op = "eq"    -> sel.key \o <<" ", "=", "=", " ">> \o Quote(sel.value)
      [] sel.op = "ne"    -> sel.key \o <<" ", "!", "=", " ">> \o Quote(sel.value)
      [] sel.op = "in"    -> sel.key \o <<" ", "i", "n", " ", "{">>
                             \o QuoteEach(sel.values) \o <<"}">>
      [] sel.op = "notin" -> sel.key \o <<" ", "n", "o", "t", " ", "i", "n", " ", "{">>
                             \o QuoteEach(sel.values) \o <<"}">>
      [] sel.op = "not"   ->
            <<"!">> \o
            (IF IsCompound(sel.arg) \/ (sel.arg.op = "not" /\ IsCompound(sel.arg.arg))
             THEN InParens(String(sel.arg))
             ELSE String(sel.arg))
      [] sel.op = "and"   ->
            (IF sel.left.op = "or" THEN InParens(String(sel.left))
             ELSE String(sel.left))
            \o <<" ", "&", "&", " ">> \o
            (IF sel.right.op = "or" THEN InParens(String(sel.right))
             ELSE String(sel.right))
      [] sel.op = "or"    ->
            String(sel.left) \o <<" ", "|", "|", " ">> \o String(sel.right)

\* Selector.UniqueId(): "s:" and the truncated digest of the canonical text.
\* The digest is kept symbolic: it is decided by the text it is taken of.
UniqueId(sel) == [prefix |-> "s:", digestOf |-> String(sel)]

-----------------------------------------------------------------------------
(* Finite maps and the orders a loop over a Go map may take.                *)

MapPut(m, k, v) == [x \in DOMAIN m \cup {k} |-> IF x = k THEN v ELSE m[x]]

MapDelete(m, k) == [x \in DOMAIN m \ {k} |-> m[x]]

\* Every sequence that lists each element of S once.
Orders(S) ==
    { o \in [1..Cardinality(S) -> S] : Range(o) = S }

-----------------------------------------------------------------------------
(* datastructures/tags: EndpointKeyToProfileIDMap.                          *)

\* Update(key, profileIDs): the IDs the endpoint dropped and the IDs it
\* gained, as sets, and the map with the new list stored.
ProfileIDMapUpdate(m, key, profileIDs) ==
    LET oldIDs == IF key \in DOMAIN m THEN Range(m[key]) ELSE {}
        newIDs == Range(profileIDs)
    IN  [removedIDs |-> oldIDs \ newIDs,
         addedIDs   |-> newIDs \ oldIDs,
         map        |-> IF Len(profileIDs) > 0
                        THEN MapPut(m, key, profileIDs)
                        ELSE MapDelete(m, key)]

-----------------------------------------------------------------------------
(* datastructures/labels: the label inheritance index.  Its state is the   *)
(* endpoints' own labels and parent IDs, the parents' labels, the          *)
(* registered selectors and the set of (selector, endpoint) pairs it has   *)
(* reported as matching.                                                    *)

NewInheritanceIndex ==
    [labelsByID     |-> EmptyMap,
     parentIDsByID  |-> EmptyMap,
     parentLabels   |-> EmptyMap,
     selectorsByID  |-> EmptyMap,
     matches        |-> {}]

RECURSIVE OverlayParents(_, _, _)
\* The labels of the parents in list order, a later parent overriding an
\* earlier one; a parent with no labels registered contributes none.
OverlayParents(idx, parentIDs, acc) ==
    IF parentIDs = <<>> THEN acc
    ELSE LET pid == Head(parentIDs)
             pl  == IF pid \in DOMAIN idx.parentLabels
                    THEN idx.parentLabels[pid] ELSE EmptyMap
             merged == [k \in DOMAIN acc \cup DOMAIN pl |->
                           IF k \in DOMAIN pl THEN pl[k] ELSE acc[k]]
         IN  OverlayParents(idx, Tail(parentIDs), merged)

\* The endpoint's own labels laid over its parents' labels.
EffectiveLabels(idx, ekey) ==
    LET inherited == OverlayParents(idx, idx.parentIDsByID[ekey], EmptyMap)
        own       == idx.labelsByID[ekey]
    IN  [k \in DOMAIN inherited \cup DOMAIN own |->
            IF k \in DOMAIN own THEN own[k] ELSE inherited[k]]

\* The match relation of the index's current contents.
MatchRelation(idx) ==
    { <<sid, ekey>> \in (DOMAIN idx.selectorsByID) \X (DOMAIN idx.labelsByID) :
        Evaluate(idx.selectorsByID[sid], EffectiveLabels(idx, ekey)) }

\* After a change of its contents the index re-evaluates, records the new
\* relation and reports the difference: the callbacks it owes.
Rescan(idx) ==
    LET now == MatchRelation(idx)
    IN  [index   |-> [idx EXCEPT !.matches = now],
         events  |-> { [type |-> "started", selId |-> p[1], labelId |-> p[2]] :
                         p \in now \ idx.matches }
                     \cup
                     { [type |-> "stopped", selId |-> p[1], labelId |-> p[2]] :
                         p \in idx.matches \ now }]

IndexUpdateLabels(idx, ekey, labels, parentIDs) ==
    Rescan([idx EXCEPT !.labelsByID = MapPut(@, ekey, labels),
                       !.parentIDsByID = MapPut(@, ekey, parentIDs)])

IndexDeleteLabels(idx, ekey) ==
    Rescan([idx EXCEPT !.labelsByID = MapDelete(@, ekey),
                       !.parentIDsByID = MapDelete(@, ekey)])

IndexUpdateParentLabels(idx, pid, labels) ==
    Rescan([idx EXCEPT !.parentLabels = MapPut(@, pid, labels)])

IndexDeleteParentLabels(idx, pid) ==
    Rescan([idx EXCEPT !.parentLabels = MapDelete(@, pid)])

IndexUpdateSelector(idx, sid, sel) ==
    Rescan([idx EXCEPT !.selectorsByID = MapPut(@, sid, sel)])

IndexDeleteSelector(idx, sid) ==
    Rescan([idx EXCEPT !.selectorsByID = MapDelete(@, sid)])

-----------------------------------------------------------------------------
(* lib/backend: the wire keys and the JSON form of the payloads.            *)

\* KeyToFelixKey: the path Felix knows the policy or the profile's rules by.
PolicyFelixKey(policyKey) ==
    <<"v1", "policy", "tier", policyKey.Tier, "policy", policyKey.Name>>

ProfileFelixKey(profileID) ==
    <<"v1", "policy", "profile", profileID, "rules">>

\* json.Marshal(Policy): order and the two rule lists are omitempty.
JsonMarshalPolicy(policy) ==
    LET fields == {"selector"}
                  \cup (IF policy.Order # None THEN {"order"} ELSE {})
                  \cup (IF Len(policy.InboundRules) > 0 THEN {"inbound_rules"} ELSE {})
                  \cup (IF Len(policy.OutboundRules) > 0 THEN {"outbound_rules"} ELSE {})
    IN  [f \in fields |->
            CASE f = "selector"       -> <<policy.Selector>>
              [] f = "order"          -> policy.Order
              [] f = "inbound_rules"  -> policy.InboundRules
              [] f = "outbound_rules" -> policy.OutboundRules]

\* json.Unmarshal into a zero Policy: a field the object lacks stays zero.
JsonUnmarshalPolicy(json) ==
    [Order         |-> IF "order" \in DOMAIN json THEN json["order"] ELSE None,
     InboundRules  |-> IF "inbound_rules" \in DOMAIN json
                       THEN json["inbound_rules"] ELSE <<>>,
     OutboundRules |-> IF "outbound_rules" \in DOMAIN json
                       THEN json["outbound_rules"] ELSE <<>>,
     Selector      |-> json["selector"][1]]

\* json.Marshal(ProfileRules).
JsonMarshalProfileRules(rules) ==
    LET fields == (IF Len(rules.InboundRules) > 0 THEN {"inbound_rules"} ELSE {})
                  \cup (IF Len(rules.OutboundRules) > 0 THEN {"outbound_rules"} ELSE {})
    IN  [f \in fields |->
            CASE f = "inbound_rules"  -> rules.InboundRules
              [] f = "outbound_rules" -> rules.OutboundRules]

-----------------------------------------------------------------------------
(* The calculator.  Its operations are written over a record `arc` of its  *)
(* fields, with the calls made so far in arc.calls.                         *)

\* NewActiveRulesCalculator is given all three callback objects.
ListenerSet == TRUE

FelixSenderSet == TRUE

MatchListenerSet == TRUE

NewActiveRulesCalculator ==
    [allPolicies             |-> EmptyMap,
     allProfileRules         |-> EmptyMap,
     policyIDToEndpointKeys  |-> EmptyMap,
     profileIDToEndpointKeys |-> EmptyMap,
     endpointKeyToProfileIDs |-> EmptyMap,
     labelIndex              |-> NewInheritanceIndex,
     calls                   |-> <<>>]

\* What a callback object sees of the calculator when it is called.
SeenPolicy(arc, policyKey) ==
    [known  |-> policyKey \in DOMAIN arc.allPolicies,
     active |-> policyKey \in DOMAIN arc.policyIDToEndpointKeys,
     cached |-> IF policyKey \in DOMAIN arc.allPolicies
                THEN Some(arc.allPolicies[policyKey]) ELSE None]

SeenProfile(arc, profileID) ==
    [known  |-> profileID \in DOMAIN arc.allProfileRules,
     active |-> profileID \in DOMAIN arc.profileIDToEndpointKeys,
     cached |-> IF profileID \in DOMAIN arc.allProfileRules
                THEN Some(arc.allProfileRules[profileID]) ELSE None]

UpdateRulesCall(kind, key, inbound, outbound, seen) ==
    [fn |-> "UpdateRules", kind |-> kind, key |-> key,
     inbound |-> inbound, outbound |-> outbound, seen |-> seen]

SendUpdateToFelixCall(kind, key, felixKey, valueOrNil, seen) ==
    [fn |-> "SendUpdateToFelix", kind |-> kind, key |-> key,
     felixKey |-> felixKey, value |-> valueOrNil, seen |-> seen]

OnPolicyMatchCall(policyKey, endpointKey) ==
    [fn |-> "OnPolicyMatch", kind |-> "match", key |-> policyKey,
     endpointKey |-> endpointKey]

Called(arc, cs) == [arc EXCEPT !.calls = @ \o cs]

\* sendProfileUpdate testing `known` alone.
sendProfileUpdateIgnoresActive(arc, profileID) ==
    LET known  == profileID \in DOMAIN arc.allProfileRules
        seen   == SeenProfile(arc, profileID)
        asEtcdKey == ProfileFelixKey(profileID)
    IN  IF known
        THEN LET rules == arc.allProfileRules[profileID]
             IN  Called(arc,
                   <<UpdateRulesCall("profile", profileID,
                        rules.InboundRules, rules.OutboundRules, seen),
                     SendUpdateToFelixCall("profile", profileID, asEtcdKey,
                        Some(JsonMarshalProfileRules(rules)), seen)>>)
        ELSE Called(arc,
                   <<UpdateRulesCall("profile", profileID, <<>>, <<>>, seen),
                     SendUpdateToFelixCall("profile", profileID, asEtcdKey,
                        None, seen)>>)

sendProfileUpdate(arc, profileID) ==
    LET known  == profileID \in DOMAIN arc.allProfileRules
        active == profileID \in DOMAIN arc.profileIDToEndpointKeys
        seen   == SeenProfile(arc, profileID)
        asEtcdKey == ProfileFelixKey(profileID)
    IN  IF known /\ active
        THEN LET rules == arc.allProfileRules[profileID]
                 jsonStr == JsonMarshalProfileRules(rules)
             IN  Called(arc,
                   (IF ListenerSet
                    THEN <<UpdateRulesCall("profile", profileID,
                              rules.InboundRules, rules.OutboundRules, seen)>>
                    ELSE <<>>)
                   \o
                   (IF FelixSenderSet
                    THEN <<SendUpdateToFelixCall("profile", profileID, asEtcdKey,
                              Some(jsonStr), seen)>>
                    ELSE <<>>))
        ELSE Called(arc,
                   (IF ListenerSet
                    THEN <<UpdateRulesCall("profile", profileID, <<>>, <<>>, seen)>>
                    ELSE <<>>)
                   \o
                   (IF FelixSenderSet
                    THEN <<SendUpdateToFelixCall("profile", profileID, asEtcdKey,
                              None, seen)>>
                    ELSE <<>>))

sendPolicyUpdate(arc, policyKey) ==
    LET known  == policyKey \in DOMAIN arc.allPolicies
        active == policyKey \in DOMAIN arc.policyIDToEndpointKeys
        seen   == SeenPolicy(arc, policyKey)
        asEtcdKey == PolicyFelixKey(policyKey)
    IN  IF known /\ active
        THEN LET policy     == arc.allPolicies[policyKey]
                 policyCopy == JsonUnmarshalPolicy(JsonMarshalPolicy(policy))
                 jsonStr    == JsonMarshalPolicy(policyCopy)
             IN  Called(arc,
                   (IF ListenerSet
                    THEN <<UpdateRulesCall("policy", policyKey,
                              policyCopy.InboundRules, policyCopy.OutboundRules, seen)>>
                    ELSE <<>>)
                   \o
                   (IF FelixSenderSet
                    THEN <<SendUpdateToFelixCall("policy", policyKey, asEtcdKey,
                              Some(jsonStr), seen)>>
                    ELSE <<>>))
        ELSE Called(arc,
                   (IF ListenerSet
                    THEN <<UpdateRulesCall("policy", policyKey, <<>>, <<>>, seen)>>
                    ELSE <<>>)
                   \o
                   (IF FelixSenderSet
                    THEN <<SendUpdateToFelixCall("policy", policyKey, asEtcdKey,
                              None, seen)>>
                    ELSE <<>>))

\* onMatchStopped without the delete of the policy's entry: the policy
\* keeps an empty set.
onMatchStoppedKeepsKey(arc, selId, labelId) ==
    LET polKey == selId
        keys   == IF polKey \in DOMAIN arc.policyIDToEndpointKeys
                  THEN arc.policyIDToEndpointKeys[polKey] \ {labelId}
                  ELSE {}
        arc1   == [arc EXCEPT !.policyIDToEndpointKeys = MapPut(@, polKey, keys)]
    IN  IF Cardinality(keys) = 0 THEN sendPolicyUpdate(arc1, polKey) ELSE arc1

\* onMatchStopped without the test of len(keys): every stopped match is
\* reported as a deactivation.
onMatchStoppedAlwaysSends(arc, selId, labelId) ==
    LET polKey == selId
        keys   == IF polKey \in DOMAIN arc.policyIDToEndpointKeys
                  THEN arc.policyIDToEndpointKeys[polKey] \ {labelId}
                  ELSE {}
    IN  sendPolicyUpdate(
          IF Cardinality(keys) = 0
          THEN [arc EXCEPT !.policyIDToEndpointKeys = MapDelete(@, polKey)]
          ELSE [arc EXCEPT !.policyIDToEndpointKeys[polKey] = keys],
          polKey)

\* onMatchStarted with the match listener told inside the `if !ok` branch:
\* only of the match that activates the policy.
onMatchStartedTellsOnActivation(arc, selId, labelId) ==
    LET polKey == selId
        ok     == polKey \in DOMAIN arc.policyIDToEndpointKeys
        arc1   == IF ~ok
                  THEN Called(sendPolicyUpdate(
                                [arc EXCEPT !.policyIDToEndpointKeys =
                                                MapPut(@, polKey, {})],
                                polKey),
                              <<OnPolicyMatchCall(polKey, labelId)>>)
                  ELSE arc
    IN  [arc1 EXCEPT !.policyIDToEndpointKeys[polKey] = @ \cup {labelId}]

\* onMatchStarted making the policy's entry without the endpoint in it.
onMatchStartedForgetsEndpoint(arc, selId, labelId) ==
    LET polKey == selId
        ok     == polKey \in DOMAIN arc.policyIDToEndpointKeys
        arc1   == IF ~ok
                  THEN sendPolicyUpdate(
                         [arc EXCEPT !.policyIDToEndpointKeys = MapPut(@, polKey, {})],
                         polKey)
                  ELSE arc
    IN  IF MatchListenerSet
        THEN Called(arc1, <<OnPolicyMatchCall(polKey, labelId)>>)
        ELSE arc1

\* onMatchStarted telling the listener before the policy's entry is made.
onMatchStartedSendsFirst(arc, selId, labelId) ==
    LET polKey == selId
        ok     == polKey \in DOMAIN arc.policyIDToEndpointKeys
        arc1   == IF ~ok
                  THEN [sendPolicyUpdate(arc, polKey)
                          EXCEPT !.policyIDToEndpointKeys = MapPut(@, polKey, {})]
                  ELSE arc
        arc2   == [arc1 EXCEPT !.policyIDToEndpointKeys[polKey] = @ \cup {labelId}]
    IN  IF MatchListenerSet
        THEN Called(arc2, <<OnPolicyMatchCall(polKey, labelId)>>)
        ELSE arc2

onMatchStarted(arc, selId, labelId) ==
    LET polKey == selId
        ok     == polKey \in DOMAIN arc.policyIDToEndpointKeys
        arc1   == IF ~ok
                  THEN sendPolicyUpdate(
                         [arc EXCEPT !.policyIDToEndpointKeys = MapPut(@, polKey, {})],
                         polKey)
                  ELSE arc
        arc2   == [arc1 EXCEPT !.policyIDToEndpointKeys[polKey] = @ \cup {labelId}]
    IN  IF MatchListenerSet
        THEN Called(arc2, <<OnPolicyMatchCall(polKey, labelId)>>)
        ELSE arc2

onMatchStopped(arc, selId, labelId) ==
    LET polKey == selId
        \* a missing entry reads as a nil map: deleting from it does nothing
        keys   == IF polKey \in DOMAIN arc.policyIDToEndpointKeys
                  THEN arc.policyIDToEndpointKeys[polKey] \ {labelId}
                  ELSE {}
    IN  IF Cardinality(keys) = 0
        THEN sendPolicyUpdate(
               [arc EXCEPT !.policyIDToEndpointKeys = MapDelete(@, polKey)],
               polKey)
        ELSE [arc EXCEPT !.policyIDToEndpointKeys[polKey] = keys]

\* The added-IDs loop body without the test of `ok`: every added ID is
\* reported as an activation.
addProfileIDAlwaysSends(arc, key, id) ==
    LET ok   == id \in DOMAIN arc.profileIDToEndpointKeys
        arc1 == sendProfileUpdate(
                  IF ~ok
                  THEN [arc EXCEPT !.profileIDToEndpointKeys = MapPut(@, id, {})]
                  ELSE arc,
                  id)
    IN  [arc1 EXCEPT !.profileIDToEndpointKeys[id] = @ \cup {key}]

\* The removed-IDs loop body without the delete of the profile's entry.
removeProfileIDKeepsKey(arc, key, id) ==
    LET keys == IF id \in DOMAIN arc.profileIDToEndpointKeys
                THEN arc.profileIDToEndpointKeys[id] \ {key}
                ELSE {}
        arc1 == [arc EXCEPT !.profileIDToEndpointKeys = MapPut(@, id, keys)]
    IN  IF Cardinality(keys) = 0 THEN sendProfileUpdate(arc1, id) ELSE arc1

\* The body of updateEndpoint's loop over addedIDs.
addProfileID(arc, key, id) ==
    LET ok   == id \in DOMAIN arc.profileIDToEndpointKeys
        arc1 == IF ~ok
                THEN sendProfileUpdate(
                       [arc EXCEPT !.profileIDToEndpointKeys = MapPut(@, id, {})],
                       id)
                ELSE arc
    IN  [arc1 EXCEPT !.profileIDToEndpointKeys[id] = @ \cup {key}]

\* The body of updateEndpoint's loop over removedIDs.
removeProfileID(arc, key, id) ==
    LET \* a missing entry reads as a nil map: deleting from it does nothing
        keys == IF id \in DOMAIN arc.profileIDToEndpointKeys
                THEN arc.profileIDToEndpointKeys[id] \ {key}
                ELSE {}
    IN  IF Cardinality(keys) = 0
        THEN sendProfileUpdate(
               [arc EXCEPT !.profileIDToEndpointKeys = MapDelete(@, id)],
               id)
        ELSE [arc EXCEPT !.profileIDToEndpointKeys[id] = keys]

RECURSIVE AddedLoop(_, _, _)
\* updateEndpoint's loop over addedIDs, taken in the order `ids`.
AddedLoop(arc, key, ids) ==
    IF ids = <<>> THEN arc
    ELSE AddedLoop(addProfileID(arc, key, Head(ids)), key, Tail(ids))

RECURSIVE RemovedLoop(_, _, _)
\* updateEndpoint's loop over removedIDs, taken in the order `ids`.
RemovedLoop(arc, key, ids) ==
    IF ids = <<>> THEN arc
    ELSE RemovedLoop(removeProfileID(arc, key, Head(ids)), key, Tail(ids))

\* updateEndpoint: every calculator it may leave, one per order in which
\* the two loops may range over their maps.
\* updateEndpoint with the loop over removedIDs run before the loop over
\* addedIDs.
updateEndpointRemovesFirst(arc, key, profileIDs) ==
    LET diff == ProfileIDMapUpdate(arc.endpointKeyToProfileIDs, key, profileIDs)
        arc1 == [arc EXCEPT !.endpointKeyToProfileIDs = diff.map]
    IN  { AddedLoop(RemovedLoop(arc1, key, removed), key, added) :
            added \in Orders(diff.addedIDs), removed \in Orders(diff.removedIDs) }

updateEndpoint(arc, key, profileIDs) ==
    LET diff == ProfileIDMapUpdate(arc.endpointKeyToProfileIDs, key, profileIDs)
        arc1 == [arc EXCEPT !.endpointKeyToProfileIDs = diff.map]
    IN  { RemovedLoop(AddedLoop(arc1, key, added), key, removed) :
            added \in Orders(diff.addedIDs), removed \in Orders(diff.removedIDs) }

RECURSIVE Deliver(_, _)
\* The index's callbacks into the calculator, in the order `events`.
Deliver(arc, events) ==
    IF events = <<>> THEN arc
    ELSE LET ev == Head(events)
             arc1 == IF ev.type = "started"
                     THEN onMatchStarted(arc, ev.selId, ev.labelId)
                     ELSE onMatchStopped(arc, ev.selId, ev.labelId)
         IN  Deliver(arc1, Tail(events))

\* An index operation's result stored, and the callbacks it owes delivered
\* before it returns, in any order.
IndexCall(arc, result) ==
    { Deliver([arc EXCEPT !.labelIndex = result.index], events) :
        events \in Orders(result.events) }

-----------------------------------------------------------------------------
(* OnUpdate.  Each case gives the outcomes the call may have: the          *)
(* calculator it leaves, and whether glog.Fatal ended the process.          *)

Returns(arcs) == { [arc |-> a, fatal |-> FALSE] : a \in arcs }

Fatal(arc) == { [arc |-> arc, fatal |-> TRUE] }

\* The endpoint cases with the endpoint's update passed on to Felix as well.
OnUpdateEndpointForwards(arc, key, value) ==
    LET forwarded == SendUpdateToFelixCall("endpoint", key,
                        <<"v1", "host", key.Hostname, "endpoint", key.EndpointID>>,
                        value, [known |-> TRUE, active |-> TRUE, cached |-> value])
    IN  IF value # None
        THEN LET endpoint   == value[1]
                 profileIDs == endpoint.ProfileIDs
             IN  Returns(UNION {
                     { Called(arc2, <<forwarded>>) :
                         arc2 \in IndexCall(arc1,
                                     IndexUpdateLabels(arc1.labelIndex, key,
                                                       endpoint.Labels, profileIDs)) } :
                         arc1 \in updateEndpoint(arc, key, profileIDs) })
        ELSE Returns(UNION {
                 { Called(arc2, <<forwarded>>) :
                     arc2 \in IndexCall(arc1, IndexDeleteLabels(arc1.labelIndex, key)) } :
                     arc1 \in updateEndpoint(arc, key, <<>>) })

\* The endpoint cases with the endpoint taken out of the index before its
\* labels are stored again.
OnUpdateEndpointReindexes(arc, key, value) ==
    IF value # None
    THEN LET endpoint   == value[1]
             profileIDs == endpoint.ProfileIDs
         IN  Returns(UNION {
                 IndexCall(arc2, IndexUpdateLabels(arc2.labelIndex, key,
                                                   endpoint.Labels, profileIDs)) :
                     arc2 \in UNION {
                         IndexCall(arc1, IndexDeleteLabels(arc1.labelIndex, key)) :
                             arc1 \in updateEndpoint(arc, key, profileIDs) } })
    ELSE Returns(UNION {
             IndexCall(arc1, IndexDeleteLabels(arc1.labelIndex, key)) :
                 arc1 \in updateEndpoint(arc, key, <<>>) })

\* case backend.WorkloadEndpointKey / backend.HostEndpointKey
OnUpdateEndpoint(arc, key, value) ==
    IF value # None
    THEN LET endpoint   == value[1]
             profileIDs == endpoint.ProfileIDs
         IN  Returns(UNION {
                 IndexCall(arc1, IndexUpdateLabels(arc1.labelIndex, key,
                                                   endpoint.Labels, profileIDs)) :
                     arc1 \in updateEndpoint(arc, key, profileIDs) })
    ELSE Returns(UNION {
             IndexCall(arc1, IndexDeleteLabels(arc1.labelIndex, key)) :
                 arc1 \in updateEndpoint(arc, key, <<>>) })

\* The ProfileLabels case with a tombstone ignored.
OnUpdateProfileLabelsIgnoresDelete(arc, key, value) ==
    IF value # None
    THEN Returns(IndexCall(arc,
             IndexUpdateParentLabels(arc.labelIndex, key.Name, value[1])))
    ELSE Returns({arc})

\* case backend.ProfileLabelsKey
OnUpdateProfileLabels(arc, key, value) ==
    IF value # None
    THEN Returns(IndexCall(arc,
             IndexUpdateParentLabels(arc.labelIndex, key.Name, value[1])))
    ELSE Returns(IndexCall(arc,
             IndexDeleteParentLabels(arc.labelIndex, key.Name)))

\* The ProfileRules case with nothing sent on a tombstone.
OnUpdateProfileRulesSilentDelete(arc, key, value) ==
    IF value # None
    THEN LET arc1 == [arc EXCEPT !.allProfileRules = MapPut(@, key.Name, value[1])]
         IN  Returns({ IF key.Name \in DOMAIN arc1.profileIDToEndpointKeys
                       THEN sendProfileUpdate(arc1, key.Name)
                       ELSE arc1 })
    ELSE Returns({ [arc EXCEPT !.allProfileRules = MapDelete(@, key.Name)] })

\* The ProfileRules case without the test that the profile is active.
OnUpdateProfileRulesAlwaysSends(arc, key, value) ==
    LET arc1 == [arc EXCEPT !.allProfileRules =
                    IF value # None THEN MapPut(@, key.Name, value[1])
                    ELSE MapDelete(@, key.Name)]
    IN  Returns({ sendProfileUpdate(arc1, key.Name) })

\* case backend.ProfileRulesKey
OnUpdateProfileRules(arc, key, value) ==
    IF value # None
    THEN LET arc1 == [arc EXCEPT !.allProfileRules = MapPut(@, key.Name, value[1])]
         IN  Returns({ IF key.Name \in DOMAIN arc1.profileIDToEndpointKeys
                        THEN sendProfileUpdate(arc1, key.Name)
                        ELSE arc1 })
    ELSE LET arc1 == [arc EXCEPT !.allProfileRules = MapDelete(@, key.Name)]
         IN  Returns({ IF key.Name \in DOMAIN arc1.profileIDToEndpointKeys
                        THEN sendProfileUpdate(arc1, key.Name)
                        ELSE arc1 })

\* The Policy case without the update sent for a policy that stays active.
OnUpdatePolicyNoResend(arc, key, value) ==
    IF value # None
    THEN LET policy == value[1]
             arc1   == [arc EXCEPT !.allPolicies = MapPut(@, key, policy)]
             parsed == Parse(policy.Selector)
         IN  IF parsed.err # None
             THEN Fatal(arc1)
             ELSE Returns(IndexCall(arc1,
                      IndexUpdateSelector(arc1.labelIndex, key, parsed.sel[1])))
    ELSE LET arc1 == [arc EXCEPT !.allPolicies = MapDelete(@, key)]
         IN  Returns(IndexCall(arc1, IndexDeleteSelector(arc1.labelIndex, key)))

\* The Policy case without the test that the policy is active.
OnUpdatePolicyAlwaysSends(arc, key, value) ==
    IF value # None
    THEN LET policy == value[1]
             arc1   == [arc EXCEPT !.allPolicies = MapPut(@, key, policy)]
             parsed == Parse(policy.Selector)
         IN  IF parsed.err # None
             THEN Fatal(arc1)
             ELSE Returns({ sendPolicyUpdate(arc2, key) :
                              arc2 \in IndexCall(arc1,
                                  IndexUpdateSelector(arc1.labelIndex, key,
                                                      parsed.sel[1])) })
    ELSE LET arc1 == [arc EXCEPT !.allPolicies = MapDelete(@, key)]
         IN  Returns(IndexCall(arc1, IndexDeleteSelector(arc1.labelIndex, key)))

\* The Policy case with the parse error logged instead of fatal: the index
\* keeps the selector it had and the call carries on.
OnUpdatePolicyLogsParseError(arc, key, value) ==
    IF value # None
    THEN LET policy == value[1]
             arc1   == [arc EXCEPT !.allPolicies = MapPut(@, key, policy)]
             parsed == Parse(policy.Selector)
             arcs   == IF parsed.err # None THEN {arc1}
                       ELSE IndexCall(arc1,
                                IndexUpdateSelector(arc1.labelIndex, key,
                                                    parsed.sel[1]))
         IN  Returns({ IF key \in DOMAIN arc2.policyIDToEndpointKeys
                        THEN sendPolicyUpdate(arc2, key)
                        ELSE arc2 : arc2 \in arcs })
    ELSE LET arc1 == [arc EXCEPT !.allPolicies = MapDelete(@, key)]
         IN  Returns(IndexCall(arc1, IndexDeleteSelector(arc1.labelIndex, key)))

\* The PolicyKey case with a tombstone that leaves the selector in the index.
OnUpdatePolicyKeepsSelector(arc, key, value) ==
    IF value # None
    THEN LET policy == value[1]
             arc1   == [arc EXCEPT !.allPolicies = MapPut(@, key, policy)]
             parsed == Parse(policy.Selector)
         IN  IF parsed.err # None
             THEN Fatal(arc1)
             ELSE Returns({ IF key \in DOMAIN arc2.policyIDToEndpointKeys
                             THEN sendPolicyUpdate(arc2, key)
                             ELSE arc2 :
                               arc2 \in IndexCall(arc1,
                                   IndexUpdateSelector(arc1.labelIndex, key,
                                                       parsed.sel[1])) })
    ELSE Returns({ [arc EXCEPT !.allPolicies = MapDelete(@, key)] })

\* case backend.PolicyKey
OnUpdatePolicy(arc, key, value) ==
    IF value # None
    THEN LET policy == value[1]
             arc1   == [arc EXCEPT !.allPolicies = MapPut(@, key, policy)]
             parsed == Parse(policy.Selector)
         IN  IF parsed.err # None
             THEN Fatal(arc1)
             ELSE Returns({ IF key \in DOMAIN arc2.policyIDToEndpointKeys
                             THEN sendPolicyUpdate(arc2, key)
                             ELSE arc2 :
                               arc2 \in IndexCall(arc1,
                                   IndexUpdateSelector(arc1.labelIndex, key,
                                                       parsed.sel[1])) })
    ELSE LET arc1 == [arc EXCEPT !.allPolicies = MapDelete(@, key)]
         IN  Returns(IndexCall(arc1, IndexDeleteSelector(arc1.labelIndex, key)))

\* The default case logging with glog.Fatal.
OnUpdateDefaultAborts(arc, key, value) == Fatal(arc)

\* default: the update is logged and ignored.
OnUpdateDefault(arc, key, value) == Returns({arc})

OnUpdate(arc, update) ==
    CASE update.kind \in {"WorkloadEndpoint", "HostEndpoint"} ->
             OnUpdateEndpoint(arc, update.key, update.value)
      [] update.kind = "ProfileLabels" ->
             OnUpdateProfileLabels(arc, update.key, update.value)
      [] update.kind = "ProfileRules" ->
             OnUpdateProfileRules(arc, update.key, update.value)
      [] update.kind = "Policy" ->
             OnUpdatePolicy(arc, update.key, update.value)
      [] OTHER ->
             OnUpdateDefault(arc, update.key, update.value)

-----------------------------------------------------------------------------
(* The state machine: the calculator between two OnUpdate calls.            *)

\* The calculator as the variables hold it, about to take a call.
Arc ==
    [allPolicies             |-> allPolicies,
     allProfileRules         |-> allProfileRules,
     policyIDToEndpointKeys  |-> policyIDToEndpointKeys,
     profileIDToEndpointKeys |-> profileIDToEndpointKeys,
     endpointKeyToProfileIDs |-> endpointKeyToProfileIDs,
     labelIndex              |-> labelIndex,
     calls                   |-> <<>>]

RECURSIVE LastListenerAfter(_, _)
\* The rule listener's record of the last UpdateRules per entity.
LastListenerAfter(last, cs) ==
    IF cs = <<>> THEN last
    ELSE LET c == Head(cs)
             args == [inbound |-> c.inbound, outbound |-> c.outbound]
         IN  LastListenerAfter(
               IF c.fn # "UpdateRules" THEN last
               ELSE IF c.kind = "policy"
                    THEN [last EXCEPT !.policy = MapPut(@, c.key, args)]
                    ELSE [last EXCEPT !.profile = MapPut(@, c.key, args)],
               Tail(cs))

RECURSIVE LastFelixAfter(_, _)
\* Felix's record of the last value sent per key.
LastFelixAfter(last, cs) ==
    IF cs = <<>> THEN last
    ELSE LET c == Head(cs)
         IN  LastFelixAfter(
               IF c.fn # "SendUpdateToFelix" THEN last
               ELSE MapPut(last, c.felixKey, c.value),
               Tail(cs))

NoUpdate == [kind |-> "none", key |-> None, value |-> None]

NothingBefore ==
    [policyIDToEndpointKeys |-> EmptyMap, profileIDToEndpointKeys |-> EmptyMap,
     value |-> None]

\* No selector text and no key is being worked on.
NoSelector == [stage |-> "none"]

NoPolicyKey == [stage |-> "none"]

CalculatorInit ==
    /\ allPolicies = NewActiveRulesCalculator.allPolicies
    /\ allProfileRules = NewActiveRulesCalculator.allProfileRules
    /\ policyIDToEndpointKeys = NewActiveRulesCalculator.policyIDToEndpointKeys
    /\ profileIDToEndpointKeys = NewActiveRulesCalculator.profileIDToEndpointKeys
    /\ endpointKeyToProfileIDs = NewActiveRulesCalculator.endpointKeyToProfileIDs
    /\ labelIndex = NewActiveRulesCalculator.labelIndex
    /\ aborted = FALSE
    /\ calls = <<>>
    /\ lastUpdate = NoUpdate
    /\ before = NothingBefore
    /\ lastListener = [policy |-> EmptyMap, profile |-> EmptyMap]
    /\ lastFelix = EmptyMap
    /\ datastore = [WorkloadEndpoint |-> EmptyMap, HostEndpoint |-> EmptyMap,
                    ProfileLabels |-> EmptyMap, ProfileRules |-> EmptyMap,
                    Policy |-> EmptyMap, Other |-> EmptyMap]

Init ==
    /\ CalculatorInit
    /\ selTest = NoSelector
    /\ keyTest = NoPolicyKey

\* The datastore's contents as the stream has reported them so far.
Delivered(store, update) ==
    [store EXCEPT ![update.kind] =
        IF update.value # None
        THEN MapPut(@, update.key, update.value[1])
        ELSE MapDelete(@, update.key)]

\* One OnUpdate call, from entry to return (or to glog.Fatal).
Call(update) ==
    /\ ~aborted
    /\ lastUpdate.kind = "none"
    /\ \E out \in OnUpdate(Arc, update) :
        /\ allPolicies' = out.arc.allPolicies
        /\ allProfileRules' = out.arc.allProfileRules
        /\ policyIDToEndpointKeys' = out.arc.policyIDToEndpointKeys
        /\ profileIDToEndpointKeys' = out.arc.profileIDToEndpointKeys
        /\ endpointKeyToProfileIDs' = out.arc.endpointKeyToProfileIDs
        /\ labelIndex' = out.arc.labelIndex
        /\ aborted' = out.fatal
        /\ calls' = out.arc.calls
        /\ lastListener' = LastListenerAfter(lastListener, out.arc.calls)
        /\ lastFelix' = LastFelixAfter(lastFelix, out.arc.calls)
    /\ lastUpdate' = update
    /\ datastore' = Delivered(datastore, update)
    /\ before' = [policyIDToEndpointKeys  |-> policyIDToEndpointKeys,
                  profileIDToEndpointKeys |-> profileIDToEndpointKeys,
                  value |-> IF update.key \in DOMAIN datastore[update.kind]
                            THEN Some(datastore[update.kind][update.key])
                            ELSE None]
    /\ UNCHANGED <<selTest, keyTest>>

\* The callback objects' records of the call are read and cleared, and the
\* caller is ready to deliver the next update.
CallReturned ==
    /\ lastUpdate.kind # "none"
    /\ calls' = <<>>
    /\ lastUpdate' = NoUpdate
    /\ before' = NothingBefore
    /\ UNCHANGED <<allPolicies, allProfileRules, policyIDToEndpointKeys,
                   profileIDToEndpointKeys, labelIndex, endpointKeyToProfileIDs,
                   aborted, lastListener, lastFelix, datastore, selTest, keyTest>>

\* The lists of an UpdateRules call are the cache's own slices: in
\* sendProfileUpdate's known-and-active branch `rules` is a copy of the
\* struct in allProfileRules, and rules.InboundRules / rules.OutboundRules
\* keep the backing arrays of the cached value.  (sendPolicyUpdate hands out
\* policyCopy, rebuilt from JSON, and the two empty lists are fresh.)
SharesCacheStorage(c) ==
    /\ c.fn = "UpdateRules"
    /\ c.kind = "profile"
    /\ c.seen.known /\ c.seen.active

\* What a write through a slice leaves in the element it overwrites.
Rewritten == "rewritten"

\* A list with element i overwritten in place; its length is the slice's.
WriteThrough(list, i) == [list EXCEPT ![i] = Rewritten]

\* The rule listener writes to an element of a list UpdateRules handed it
\* (sendPolicyUpdate's FIXME: "UpdateRules modifies the rules!").  Through a
\* slice that shares the cache's storage the write lands in allProfileRules.
ListenerWritesRules ==
    /\ ~aborted
    /\ lastUpdate.kind # "none"
    /\ \E n \in DOMAIN calls :
          /\ SharesCacheStorage(calls[n])
          /\ LET p == calls[n].key
                 cached == allProfileRules[p]
             IN  \/ \E i \in DOMAIN cached.InboundRules :
                       /\ cached.InboundRules[i] # Rewritten
                       /\ allProfileRules' =
                            [allProfileRules EXCEPT ![p].InboundRules =
                                WriteThrough(cached.InboundRules, i)]
                 \/ \E i \in DOMAIN cached.OutboundRules :
                       /\ cached.OutboundRules[i] # Rewritten
                       /\ allProfileRules' =
                            [allProfileRules EXCEPT ![p].OutboundRules =
                                WriteThrough(cached.OutboundRules, i)]
    /\ UNCHANGED <<allPolicies, policyIDToEndpointKeys, profileIDToEndpointKeys,
                   labelIndex, endpointKeyToProfileIDs, aborted, calls,
                   lastUpdate, before, lastListener, lastFelix, datastore,
                   selTest, keyTest>>

UpdateWorkloadEndpoint(stream) ==
    \E update \in stream.WorkloadEndpoint : Call(update)

UpdateHostEndpoint(stream) ==
    \E update \in stream.HostEndpoint : Call(update)

UpdateProfileLabels(stream) ==
    \E update \in stream.ProfileLabels : Call(update)

UpdateProfileRules(stream) ==
    \E update \in stream.ProfileRules : Call(update)

UpdatePolicy(stream) ==
    \E update \in stream.Policy : Call(update)

UpdateOther(stream) ==
    \E update \in stream.Other : Call(update)

-----------------------------------------------------------------------------
(* The update streams the calculator is driven by.                          *)

ProfileKeys(ids) == { [Name |-> id] : id \in ids }

\* Updates for a key of a type OnUpdate has no case for (a tier's key).
OtherUpdates == Updates("Other", { [Tier |-> "default"] }, { [Order |-> Some(10)] })

\* Endpoints that differ in their profile IDs, and the profiles' rules.
ProfileStream ==
    [WorkloadEndpoint |-> Updates("WorkloadEndpoint", WorkloadEndpointKeys,
                            [Labels : {NoLabels}, ProfileIDs : ProfileIDLists]),
     HostEndpoint     |-> Updates("HostEndpoint", HostEndpointKeys,
                            [Labels : {NoLabels}, ProfileIDs : ProfileIDLists]),
     ProfileRules     |-> Updates("ProfileRules", ProfileKeys(ProfileIDs),
                            ProfileRulesValues)]

\* Endpoints that differ in their own labels, and two policies.
PolicyStream ==
    [WorkloadEndpoint |-> Updates("WorkloadEndpoint", WorkloadEndpointKeys,
                            [Labels : LabelMaps, ProfileIDs : {<<>>}]),
     HostEndpoint     |-> Updates("HostEndpoint", HostEndpointKeys,
                            [Labels : LabelMaps, ProfileIDs : {<<>>}]),
     Policy           |-> Updates("Policy", PolicyKeys, PolicyValues(SelectorStrings)),
     Other            |-> OtherUpdates]

\* Endpoints that inherit labels from their profiles, and one policy.
InheritStream ==
    [WorkloadEndpoint |-> Updates("WorkloadEndpoint", WorkloadEndpointKeys,
                            [Labels : LabelMaps,
                             ProfileIDs : {<<>>, <<"p1">>, <<"p1", "p2">>}]),
     HostEndpoint     |-> Updates("HostEndpoint", HostEndpointKeys,
                            [Labels : {NoLabels}, ProfileIDs : {<<"p1">>}]),
     ProfileLabels    |-> Updates("ProfileLabels", ProfileKeys(ProfileIDs),
                            LabelMaps \ {NoLabels}),
     Policy           |-> Updates("Policy", { [Tier |-> "default", Name |-> "k1"] },
                            { [Order |-> None, InboundRules |-> <<"allow">>,
                               OutboundRules |-> <<>>, Selector |-> s] :
                                  s \in {"role == \"db\"", "!has(role)"} })]

\* Updates of every kind.
MixedStream ==
    [WorkloadEndpoint |-> Updates("WorkloadEndpoint", WorkloadEndpointKeys,
                            [Labels : {NoLabels, [role |-> "db"]},
                             ProfileIDs : {<<>>, <<"p1">>}]),
     HostEndpoint     |-> Updates("HostEndpoint", HostEndpointKeys,
                            [Labels : {NoLabels}, ProfileIDs : {<<"p1">>, <<"p2">>}]),
     ProfileLabels    |-> Updates("ProfileLabels", ProfileKeys({"p1"}),
                            { [role |-> "db"] }),
     ProfileRules     |-> Updates("ProfileRules", ProfileKeys({"p1"}),
                            ProfileRulesValues),
     Policy           |-> Updates("Policy", { [Tier |-> "default", Name |-> "k1"] },
                            PolicyValues({"all()", "role == \"db\"", "role"})),
     Other            |-> OtherUpdates]

Next ==
    \/ UpdateWorkloadEndpoint(MixedStream)
    \/ UpdateHostEndpoint(MixedStream)
    \/ UpdateProfileLabels(MixedStream)
    \/ UpdateProfileRules(MixedStream)
    \/ UpdatePolicy(MixedStream)
    \/ UpdateOther(MixedStream)
    \/ CallReturned

Spec == Init /\ [][Next]_vars

NextProfiles ==
    \/ UpdateWorkloadEndpoint(ProfileStream)
    \/ UpdateHostEndpoint(ProfileStream)
    \/ UpdateProfileRules(ProfileStream)
    \/ CallReturned

SpecProfiles == Init /\ [][NextProfiles]_vars

NextPolicies ==
    \/ UpdateWorkloadEndpoint(PolicyStream)
    \/ UpdateHostEndpoint(PolicyStream)
    \/ UpdatePolicy(PolicyStream)
    \/ UpdateOther(PolicyStream)
    \/ CallReturned

SpecPolicies == Init /\ [][NextPolicies]_vars

NextInherit ==
    \/ UpdateWorkloadEndpoint(InheritStream)
    \/ UpdateHostEndpoint(InheritStream)
    \/ UpdateProfileLabels(InheritStream)
    \/ UpdatePolicy(InheritStream)
    \/ CallReturned

SpecInherit == Init /\ [][NextInherit]_vars

\* Updates of every kind, with a rule listener that writes to the lists it
\* is handed.
NextListenerWrites ==
    \/ UpdateWorkloadEndpoint(MixedStream)
    \/ UpdateHostEndpoint(MixedStream)
    \/ UpdateProfileLabels(MixedStream)
    \/ UpdateProfileRules(MixedStream)
    \/ UpdatePolicy(MixedStream)
    \/ UpdateOther(MixedStream)
    \/ ListenerWritesRules
    \/ CallReturned

SpecListenerWrites == Init /\ [][NextListenerWrites]_vars

-----------------------------------------------------------------------------
(* lib/selector/parser's tests: the vectors of parser_test.go, and the      *)
(* steps its test bodies take with a selector's text.                       *)

\* selectorTests: each selector with the label maps it must match and
\* those it must not.
SelectorTests ==
    {
      [sel |-> <<"a", " ", "=", "=", " ", "\"", "b", "\"">>,
       expMatches |-> {(<<"a">> :> <<"b">>), (<<"a">> :> <<"b">>) @@ (<<"c">> :> <<"d">>)},
       expNonMatches |-> {NoLabels, (<<"a">> :> <<"c">>), (<<"c">> :> <<"d">>)}],
      [sel |-> <<"a", " ", "=", "=", " ", "\"", "b", "\"", " ", "&", "&", " ", "c", " ", "=", "=", " ", "\"", "d", "\"">>,
       expMatches |-> {(<<"a">> :> <<"b">>) @@ (<<"c">> :> <<"d">>)},
       expNonMatches |-> {NoLabels, (<<"a">> :> <<"b">>) @@ (<<"c">> :> <<"e">>), (<<"a">> :> <<"c">>) @@ (<<"c">> :> <<"d">>), (<<"c">> :> <<"d">>), (<<"a">> :> <<"b">>)}],
      [sel |-> <<"a", " ", "=", "=", " ", "\"", "b", "\"", " ", "|", "|", " ", "c", " ", "=", "=", " ", "\"", "d", "\"">>,
       expMatches |-> {(<<"a">> :> <<"b">>) @@ (<<"c">> :> <<"d">>), (<<"a">> :> <<"b">>), (<<"c">> :> <<"d">>)},
       expNonMatches |-> {NoLabels, (<<"a">> :> <<"e">>) @@ (<<"c">> :> <<"e">>), (<<"c">> :> <<"e">>), (<<"a">> :> <<"e">>)}],
      [sel |-> <<"a", " ", "i", "n", " ", "{", "\"", "'", "\"", ",", " ", "'", "\"", "'", ",", " ", "\"", "c", "\"", "}">>,
       expMatches |-> {(<<"a">> :> <<"c">>), (<<"a">> :> <<"\"">>), (<<"a">> :> <<"'">>)},
       expNonMatches |-> {NoLabels, (<<"a">> :> <<"e">>)}],
      [sel |-> <<"a", " ", "n", "o", "t", " ", "i", "n", " ", "{", "\"", "'", "\"", ",", " ", "'", "\"", "'", ",", " ", "\"", "c", "\"", "}">>,
       expMatches |-> {NoLabels, (<<"a">> :> <<"e">>)},
       expNonMatches |-> {(<<"a">> :> <<"c">>), (<<"a">> :> <<"\"">>), (<<"a">> :> <<"'">>)}],
      [sel |-> <<"a", " ", "=", "=", " ", "'", "a", "'">>,
       expMatches |-> {(<<"a">> :> <<"a">>)},
       expNonMatches |-> {}],
      [sel |-> <<"a", " ", "=", "=", " ", "\"", "a", "\"">>,
       expMatches |-> {(<<"a">> :> <<"a">>)},
       expNonMatches |-> {}],
      [sel |-> <<"a", " ", "!", "=", " ", "\"", "b", "\"">>,
       expMatches |-> {(<<"a">> :> <<"a">>)},
       expNonMatches |-> {}],
      [sel |-> <<"a", " ", "!", "=", " ", "\"", "a", "\"">>,
       expMatches |-> {NoLabels},
       expNonMatches |-> {}],
      [sel |-> <<"a", " ", "i", "n", " ", "{", "\"", "a", "\"", "}">>,
       expMatches |-> {(<<"a">> :> <<"a">>)},
       expNonMatches |-> {}],
      [sel |-> <<"!", "a", " ", "i", "n", " ", "{", "\"", "a", "\"", "}">>,
       expMatches |-> {(<<"a">> :> <<"b">>)},
       expNonMatches |-> {}],
      [sel |-> <<"a", " ", "i", "n", " ", "{", "\"", "a", "\"", ",", " ", "\"", "b", "\"", "}">>,
       expMatches |-> {(<<"a">> :> <<"a">>)},
       expNonMatches |-> {}],
      [sel |-> <<"a", " ", "i", "n", " ", "{", "\"", "a", "\"", ",", " ", "\"", "b", "\"", "}">>,
       expMatches |-> {(<<"a">> :> <<"b">>)},
       expNonMatches |-> {}],
      [sel |-> <<"a", " ", "n", "o", "t", " ", "i", "n", " ", "{", "\"", "d", "\"", ",", " ", "\"", "e", "\"", "}">>,
       expMatches |-> {(<<"a">> :> <<"a">>)},
       expNonMatches |-> {}],
      [sel |-> <<"h", "a", "s", "(", "a", ")">>,
       expMatches |-> {(<<"a">> :> <<"b">>)},
       expNonMatches |-> {}],
      [sel |-> <<"!", "h", "a", "s", "(", "a", ")">>,
       expMatches |-> {(<<"b">> :> <<"b">>)},
       expNonMatches |-> {}],
      [sel |-> <<>>,
       expMatches |-> {NoLabels},
       expNonMatches |-> {}],
      [sel |-> <<" ">>,
       expMatches |-> {NoLabels},
       expNonMatches |-> {}],
      [sel |-> <<>>,
       expMatches |-> {(<<"a">> :> <<"b">>)},
       expNonMatches |-> {}],
      [sel |-> <<"a", "l", "l", "(", ")">>,
       expMatches |-> {NoLabels},
       expNonMatches |-> {}],
      [sel |-> <<" ", "a", "l", "l", "(", ")">>,
       expMatches |-> {NoLabels},
       expNonMatches |-> {}],
      [sel |-> <<" ", "a", "l", "l", "(", ")">>,
       expMatches |-> {(<<"a">> :> <<"b">>)},
       expNonMatches |-> {}],
      [sel |-> <<"a", " ", "=", "=", " ", "'", "a", "'">>,
       expMatches |-> {},
       expNonMatches |-> {(<<"a">> :> <<"b">>)}],
      [sel |-> <<"a", " ", "=", "=", " ", "'", "a", "'">>,
       expMatches |-> {},
       expNonMatches |-> {NoLabels}],
      [sel |-> <<"a", " ", "!", "=", " ", "\"", "a", "\"">>,
       expMatches |-> {},
       expNonMatches |-> {(<<"a">> :> <<"a">>)}],
      [sel |-> <<"a", " ", "!", "=", " ", "'", "a", "'">>,
       expMatches |-> {},
       expNonMatches |-> {(<<"a">> :> <<"a">>)}],
      [sel |-> <<"a", " ", "i", "n", " ", "{", "\"", "a", "\"", "}">>,
       expMatches |-> {},
       expNonMatches |-> {(<<"a">> :> <<"b">>)}],
      [sel |-> <<"a", " ", "n", "o", "t", " ", "i", "n", " ", "{", "\"", "a", "\"", "}">>,
       expMatches |-> {},
       expNonMatches |-> {(<<"a">> :> <<"a">>)}],
      [sel |-> <<"a", " ", "i", "n", " ", "{", "\"", "a", "\"", ",", " ", "\"", "b", "\"", "}">>,
       expMatches |-> {},
       expNonMatches |-> {(<<"a">> :> <<"c">>)}],
      [sel |-> <<"h", "a", "s", "(", "b", ")">>,
       expMatches |-> {},
       expNonMatches |-> {(<<"a">> :> <<"b">>)}],
      [sel |-> <<"!", "!", "h", "a", "s", "(", "b", ")">>,
       expMatches |-> {},
       expNonMatches |-> {(<<"a">> :> <<"b">>)}],
      [sel |-> <<"!", " ", "h", "a", "s", "(", "a", ")">>,
       expMatches |-> {},
       expNonMatches |-> {(<<"a">> :> <<"b">>)}],
      [sel |-> <<"!", "h", "a", "s", "(", "a", ")">>,
       expMatches |-> {},
       expNonMatches |-> {(<<"a">> :> <<"b">>)}],
      [sel |-> <<"!", "!", "!", " ", "h", "a", "s", "(", "a", ")">>,
       expMatches |-> {},
       expNonMatches |-> {(<<"a">> :> <<"b">>)}],
      [sel |-> <<"!", "!", "!", "h", "a", "s", "(", "a", ")">>,
       expMatches |-> {},
       expNonMatches |-> {(<<"a">> :> <<"b">>)}],
      [sel |-> <<"!", "!", " ", "!", " ", "h", "a", "s", "(", "a", ")">>,
       expMatches |-> {},
       expNonMatches |-> {(<<"a">> :> <<"b">>)}],
      [sel |-> <<"!", " ", "!", "!", "h", "a", "s", "(", "a", ")">>,
       expMatches |-> {},
       expNonMatches |-> {(<<"a">> :> <<"b">>)}],
      [sel |-> <<"a", " ", "=", "=", " ", "'", "a", "1", "'", " ", "&", "&", " ", "b", " ", "=", "=", " ", "'", "b", "1", "'">>,
       expMatches |-> {(<<"a">> :> <<"a", "1">>) @@ (<<"b">> :> <<"b", "1">>)},
       expNonMatches |-> {}],
      [sel |-> <<"a", " ", "=", "=", " ", "'", "a", "1", "'", " ", "&", "&", " ", "b", " ", "!", "=", " ", "'", "b", "1", "'">>,
       expMatches |-> {},
       expNonMatches |-> {(<<"a">> :> <<"a", "1">>) @@ (<<"b">> :> <<"b", "1">>)}],
      [sel |-> <<"a", " ", "!", "=", " ", "'", "a", "1", "'", " ", "&", "&", " ", "b", " ", "=", "=", " ", "'", "b", "1", "'">>,
       expMatches |-> {},
       expNonMatches |-> {(<<"a">> :> <<"a", "1">>) @@ (<<"b">> :> <<"b", "1">>)}],
      [sel |-> <<"a", " ", "!", "=", " ", "'", "a", "1", "'", " ", "&", "&", " ", "b", " ", "!", "=", " ", "'", "b", "1", "'">>,
       expMatches |-> {},
       expNonMatches |-> {(<<"a">> :> <<"a", "1">>) @@ (<<"b">> :> <<"b", "1">>)}],
      [sel |-> <<"a", " ", "!", "=", " ", "'", "a", "1", "'", " ", "&", "&", " ", "!", "b", " ", "=", "=", " ", "'", "b", "1", "'">>,
       expMatches |-> {},
       expNonMatches |-> {(<<"a">> :> <<"a", "1">>) @@ (<<"b">> :> <<"b", "1">>)}],
      [sel |-> <<"!", "a", " ", "=", "=", " ", "'", "a", "1", "'", " ", "&", "&", " ", "b", " ", "=", "=", " ", "'", "b", "1", "'">>,
       expMatches |-> {},
       expNonMatches |-> {(<<"a">> :> <<"a", "1">>) @@ (<<"b">> :> <<"b", "1">>)}],
      [sel |-> <<"h", "a", "s", "(", "a", ")", " ", "&", "&", " ", "!", "h", "a", "s", "(", "b", ")">>,
       expMatches |-> {(<<"a">> :> <<"a">>)},
       expNonMatches |-> {}],
      [sel |-> <<"!", "h", "a", "s", "(", "b", ")", " ", "&", "&", " ", "h", "a", "s", "(", "a", ")">>,
       expMatches |-> {(<<"a">> :> <<"a">>)},
       expNonMatches |-> {}],
      [sel |-> <<"!", "(", "!", "h", "a", "s", "(", "a", ")", " ", "|", "|", " ", "h", "a", "s", "(", "b", ")", ")">>,
       expMatches |-> {(<<"a">> :> <<"a">>)},
       expNonMatches |-> {}],
      [sel |-> <<"!", "(", "h", "a", "s", "(", "b", ")", " ", "|", "|", " ", "!", "h", "a", "s", "(", "a", ")", ")">>,
       expMatches |-> {(<<"a">> :> <<"a">>)},
       expNonMatches |-> {}],
      [sel |-> <<"a", " ", "=", "=", " ", "'", "a", "1", "'", " ", "|", "|", " ", "b", " ", "=", "=", " ", "'", "b", "1", "'">>,
       expMatches |-> {(<<"a">> :> <<"a", "1">>) @@ (<<"b">> :> <<"b", "1">>)},
       expNonMatches |-> {}],
      [sel |-> <<"a", " ", "=", "=", " ", "'", "a", "1", "'", " ", "|", "|", " ", "b", " ", "!", "=", " ", "'", "b", "1", "'">>,
       expMatches |-> {(<<"a">> :> <<"a", "1">>) @@ (<<"b">> :> <<"b", "1">>)},
       expNonMatches |-> {}],
      [sel |-> <<"a", " ", "!", "=", " ", "'", "a", "1", "'", " ", "|", "|", " ", "b", " ", "=", "=", " ", "'", "b", "1", "'">>,
       expMatches |-> {(<<"a">> :> <<"a", "1">>) @@ (<<"b">> :> <<"b", "1">>)},
       expNonMatches |-> {}],
      [sel |-> <<"a", " ", "!", "=", " ", "'", "a", "1", "'", " ", "|", "|", " ", "b", " ", "!", "=", " ", "'", "b", "1", "'">>,
       expMatches |-> {},
       expNonMatches |-> {(<<"a">> :> <<"a", "1">>) @@ (<<"b">> :> <<"b", "1">>)}],
      [sel |-> <<"!", " ", "a", " ", "=", "=", " ", "'", "a", "1", "'", " ", "|", "|", " ", "!", " ", "b", " ", "=", "=", " ", "'", "b", "1", "'">>,
       expMatches |-> {},
       expNonMatches |-> {(<<"a">> :> <<"a", "1">>) @@ (<<"b">> :> <<"b", "1">>)}] }

\* badSelectors: texts Parse must reject.
BadSelectors ==
    { <<"b", " ", "=", "=", " ", "b">>,
      <<"'", "b", "1", "'", " ", "=", "=", " ", "b">>,
      <<"b">>,
      <<"a", " ", "b">>,
      <<"!">>,
      <<"f", "o", "o", " ", "=", "=", " ", "\"", "b", "a", "r", "\"", " ", "&">>,
      <<"f", "o", "o", " ", "=", "=", " ", "\"", "b", "a", "r", "\"", " ", "|">>,
      <<"\"", "F", "O", "O">>,
      <<"\"", "F", "O", "O", "'">>,
      <<"'", "F", "O", "O">>,
      <<"(">>,
      <<")">>,
      <<"(", ")">>,
      <<"%">> }

\* canonicalisationTests: each input with the text String() must give.
CanonicalisationTests ==
    { [input |-> <<>>,
       expected |-> <<"a", "l", "l", "(", ")">>],
      [input |-> <<" ", "a", "l", "l", "(", ")", " ">>,
       expected |-> <<"a", "l", "l", "(", ")">>],
      [input |-> <<" ", "(", "a", "l", "l", "(", ")", " ", ")">>,
       expected |-> <<"a", "l", "l", "(", ")">>],
      [input |-> <<"!", " ", "(", "h", "a", "s", "(", " ", "b", ")", "|", "|", "!", " ", "h", "a", "s", "(", "a", " ", ")", ")">>,
       expected |-> <<"!", "(", "h", "a", "s", "(", "b", ")", " ", "|", "|", " ", "!", "h", "a", "s", "(", "a", ")", ")">>],
      [input |-> <<"!", " ", "(", "a", " ", "=", "=", " ", "\"", "b", "\"", "&", "&", "!", " ", "c", " ", "!", "=", " ", "\"", "d", "\"", ")">>,
       expected |-> <<"!", "(", "a", " ", "=", "=", " ", "\"", "b", "\"", " ", "&", "&", " ", "!", "c", " ", "!", "=", " ", "\"", "d", "\"", ")">>],
      [input |-> <<"a", " ", "=", "=", " ", "\"", "'", "\"">>,
       expected |-> <<"a", " ", "=", "=", " ", "\"", "'", "\"">>],
      [input |-> <<"a", " ", "=", "=", " ", "'", "\"", "'">>,
       expected |-> <<"a", " ", "=", "=", " ", "'", "\"", "'">>],
      [input |-> <<"a", "!", "=", "'", "\"", "'">>,
       expected |-> <<"a", " ", "!", "=", " ", "'", "\"", "'">>] }
\* Every label map a selectorTest names.
SelectorLabelMaps ==
    UNION { t.expMatches \cup t.expNonMatches : t \in SelectorTests }

\* The literal as a test would spell it: in single quotes unless it holds one.
SpellLiteral(v) ==
    IF SQuote \in Range(v) THEN <<DQuote>> \o v \o <<DQuote>>
    ELSE <<SQuote>> \o v \o <<SQuote>>

RECURSIVE SpellEach(_, _)
\* The literals of a set, spelled, with `pad` around the commas.
SpellEach(vs, pad) ==
    IF vs = <<>> THEN <<>>
    ELSE IF Len(vs) = 1 THEN SpellLiteral(vs[1])
    ELSE SpellLiteral(Head(vs)) \o pad \o <<",">> \o pad \o SpellEach(Tail(vs), pad)

RECURSIVE Spell(_, _)
\* A text of the grammar for the tree, far from canonical: every operand in
\* parentheses, and `pad` wherever the grammar allows white space.
Spell(tree, pad) ==
    CASE tree.op = "all"   -> <<"a", "l", "l", "(", ")">>
      [] tree.op = "has"   -> <<"h", "a", "s", "(">> \o pad \o tree.key \o pad \o <<")">>
      [] tree.op = "eq"    -> tree.key \o pad \o <<"=", "=">> \o pad
                              \o SpellLiteral(tree.value)
      [] tree.op = "ne"    -> tree.key \o pad \o <<"!", "=">> \o pad
                              \o SpellLiteral(tree.value)
      [] tree.op = "in"    -> tree.key \o <<" ">> \o pad \o <<"i", "n">> \o pad
                              \o <<"{">> \o pad \o SpellEach(tree.values, pad)
                              \o pad \o <<"}">>
      [] tree.op = "notin" -> tree.key \o <<" ">> \o pad
                              \o <<"n", "o", "t", " ", "i", "n">> \o pad
                              \o <<"{">> \o pad \o SpellEach(tree.values, pad)
                              \o pad \o <<"}">>
      [] tree.op = "not"   -> <<"!">> \o pad \o <<"(">> \o pad \o Spell(tree.arg, pad)
                              \o pad \o <<")">>
      [] tree.op = "and"   -> <<"(">> \o Spell(tree.left, pad) \o <<")">> \o pad
                              \o <<"&", "&">> \o pad
                              \o <<"(">> \o Spell(tree.right, pad) \o <<")">>
      [] tree.op = "or"    -> <<"(">> \o Spell(tree.left, pad) \o <<")">> \o pad
                              \o <<"|", "|">> \o pad
                              \o <<"(">> \o Spell(tree.right, pad) \o <<")">>

\* One expression of each leaf kind, over the tests' labels.
LeafExpressions ==
    { SelAll,
      SelHas(<<"a">>),
      SelEqual(<<"a">>, <<"b">>),
      SelNotEqual(<<"c">>, <<DQuote>>),
      SelIn(<<"a">>, << <<"c">>, <<SQuote>> >>),
      SelNotIn(<<"c">>, <<>>) }

Negations(exprs) == { SelNot(e) : e \in exprs }

Combinations(lefts, rights) ==
    { SelAnd(l, r) : l \in lefts, r \in rights }
    \cup { SelOr(l, r) : l \in lefts, r \in rights }

\* The operands of the nested combinations.
NestedOperands == { SelHas(<<"a">>), SelNot(SelEqual(<<"c">>, <<"d">>)) }

NestedPairs == Combinations(NestedOperands, NestedOperands)

\* Trees of every shape up to a combination of combinations and a negation
\* of a negation of a combination.
SelectorTrees ==
    LET operands == LeafExpressions \cup Negations(LeafExpressions)
        pairs    == Combinations(operands, operands)
        nested   == Combinations(NestedPairs \cup NestedOperands,
                                 NestedPairs \cup NestedOperands)
    IN  operands \cup pairs \cup Negations(pairs)
        \cup nested \cup Negations(nested) \cup Negations(Negations(NestedPairs))

\* The texts Parse is given: the tests' own, and the trees spelled tightly
\* and loosely.
SelectorTexts ==
    { t.sel : t \in SelectorTests }
    \cup BadSelectors
    \cup { t.input : t \in CanonicalisationTests }
    \cup { Spell(tree, pad) : tree \in SelectorTrees, pad \in { <<>>, <<" ">> } }

InitSelector ==
    /\ CalculatorInit
    /\ selTest \in { [stage |-> "text", text |-> s] : s \in SelectorTexts }
    /\ keyTest = NoPolicyKey

\* sel, err = Parse(test.sel)
SelectorParse ==
    /\ selTest.stage = "text"
    /\ selTest' = [stage |-> "parsed", text |-> selTest.text,
                   sel |-> ParseSelector(selTest.text)]
    /\ UNCHANGED <<calculatorVars, keyTest>>

\* canon := sel.String(); uid := sel.UniqueId()
SelectorString ==
    /\ selTest.stage = "parsed"
    /\ selTest.sel.ok
    /\ selTest' = [stage |-> "canonical", text |-> selTest.text,
                   sel |-> selTest.sel,
                   canon |-> String(selTest.sel.tree),
                   uid |-> UniqueId(selTest.sel.tree)]
    /\ UNCHANGED <<calculatorVars, keyTest>>

\* The test's record once Parse(canon) has returned.
RoundTripped(test, roundTripped) ==
    IF roundTripped.ok
    THEN [stage |-> "roundTripped", text |-> test.text,
          sel |-> test.sel, canon |-> test.canon,
          uid |-> test.uid, roundTripped |-> roundTripped,
          canon2 |-> String(roundTripped.tree),
          uid2 |-> UniqueId(roundTripped.tree)]
    ELSE [stage |-> "roundTripFailed", text |-> test.text,
          sel |-> test.sel, canon |-> test.canon,
          uid |-> test.uid, roundTripped |-> roundTripped]

\* roundTripped, err := Parse(canon), and its String() and UniqueId() when
\* there is no error.
SelectorRoundTrip ==
    /\ selTest.stage = "canonical"
    /\ selTest' = RoundTripped(selTest, ParseSelector(selTest.canon))
    /\ UNCHANGED <<calculatorVars, keyTest>>

\* sel.Evaluate(labels) and sel2.Evaluate(labels)
SelectorEvaluate ==
    /\ selTest.stage = "roundTripped"
    /\ \E labels \in SelectorLabelMaps :
          selTest' = [stage |-> "evaluated", text |-> selTest.text,
                      sel |-> selTest.sel, canon |-> selTest.canon,
                      roundTripped |-> selTest.roundTripped,
                      labels |-> labels,
                      matches |-> Evaluate(selTest.sel.tree, labels),
                      matches2 |-> Evaluate(selTest.roundTripped.tree, labels)]
    /\ UNCHANGED <<calculatorVars, keyTest>>

NextSelector ==
    \/ SelectorParse
    \/ SelectorString
    \/ SelectorRoundTrip
    \/ SelectorEvaluate

SpecSelector == InitSelector /\ [][NextSelector]_vars

-----------------------------------------------------------------------------
(* lib/backend/model/policy.go: a PolicyKey's datastore path.  Strings are   *)
(* the sequences of their characters.                                       *)

\* errors.ErrorInsufficientIdentifiers{Name: name}
ErrorInsufficientIdentifiers(name) ==
    [type |-> "ErrorInsufficientIdentifiers", Name |-> name]

\* A (string, error) pair as the path functions return it.
PathResult(path, err) == [path |-> path, err |-> err]

\* A path function that looks at the name before the tier.
defaultPathNameFirst(key) ==
    IF key.Name = <<>>
    THEN PathResult(<<>>, Some(ErrorInsufficientIdentifiers("name")))
    ELSE IF key.Tier = <<>>
    THEN PathResult(<<>>, Some(ErrorInsufficientIdentifiers("tier")))
    ELSE PathResult(<<"/", "c", "a", "l", "i", "c", "o", "/", "v", "1", "/", "p", "o", "l", "i", "c", "y", "/", "t", "i", "e", "r", "/">> \o key.Tier
                    \o <<"/", "p", "o", "l", "i", "c", "y", "/">> \o key.Name, None)

\* func (key PolicyKey) defaultPath() (string, error)
defaultPath(key) ==
    IF key.Tier = <<>>
    THEN PathResult(<<>>, Some(ErrorInsufficientIdentifiers("tier")))
    ELSE IF key.Name = <<>>
    THEN PathResult(<<>>, Some(ErrorInsufficientIdentifiers("name")))
    ELSE PathResult(<<"/", "c", "a", "l", "i", "c", "o", "/", "v", "1", "/", "p", "o", "l", "i", "c", "y", "/", "t", "i", "e", "r", "/">> \o key.Tier
                    \o <<"/", "p", "o", "l", "i", "c", "y", "/">> \o key.Name, None)

\* func (key PolicyKey) defaultDeletePath() (string, error)
defaultDeletePath(key) == defaultPath(key)

\* The tier and policy names of the keys encoded, the empty one among them.
KeyNames ==
    { <<>>, <<"a">>, <<"k", "1">>, <<"k", "2">>, <<"t", "1">>,
      <<"d", "e", "f", "a", "u", "l", "t">> }

EncodedPolicyKeys == [Name : KeyNames, Tier : KeyNames]

InitPolicyKey ==
    /\ CalculatorInit
    /\ selTest = NoSelector
    /\ keyTest \in { [stage |-> "key", key |-> k, path |-> None, deletePath |-> None] :
                        k \in EncodedPolicyKeys }

\* key.defaultPath()
PolicyKeyDefaultPath ==
    /\ keyTest.stage = "key"
    /\ keyTest.path = None
    /\ keyTest' = [keyTest EXCEPT !.path = Some(defaultPath(keyTest.key))]
    /\ UNCHANGED <<calculatorVars, selTest>>

\* key.defaultDeletePath()
PolicyKeyDefaultDeletePath ==
    /\ keyTest.stage = "key"
    /\ keyTest.deletePath = None
    /\ keyTest' = [keyTest EXCEPT !.deletePath = Some(defaultDeletePath(keyTest.key))]
    /\ UNCHANGED <<calculatorVars, selTest>>

NextPolicyKey ==
    \/ PolicyKeyDefaultPath
    \/ PolicyKeyDefaultDeletePath

SpecPolicyKey == InitPolicyKey /\ [][NextPolicyKey]_vars

-----------------------------------------------------------------------------
(* What the datastore says, computed from the updates alone.                *)

\* The endpoints the stream has reported and not deleted, with their values.
KnownEndpoints ==
    [e \in DOMAIN datastore.WorkloadEndpoint \cup DOMAIN datastore.HostEndpoint |->
        IF e \in DOMAIN datastore.WorkloadEndpoint
        THEN datastore.WorkloadEndpoint[e] ELSE datastore.HostEndpoint[e]]

\* The labels profile `pid` contributes: none when it has no labels.
LabelsOfProfile(pid) ==
    IF [Name |-> pid] \in DOMAIN datastore.ProfileLabels
    THEN datastore.ProfileLabels[[Name |-> pid]] ELSE NoLabels

\* The value endpoint `e` has for label `k`: its own, else that of the last
\* profile in its list that sets k; none if nothing sets it.
EffectiveLabel(e, k) ==
    LET ep == KnownEndpoints[e]
        setters == { i \in DOMAIN ep.ProfileIDs :
                       k \in DOMAIN LabelsOfProfile(ep.ProfileIDs[i]) }
        last == CHOOSE i \in setters : \A j \in setters : j <= i
    IN  IF k \in DOMAIN ep.Labels THEN Some(ep.Labels[k])
        ELSE IF setters # {} THEN Some(LabelsOfProfile(ep.ProfileIDs[last])[k])
        ELSE None

EffectiveLabelsOf(e) ==
    [k \in { x \in LabelKeys : EffectiveLabel(e, x) # None } |-> EffectiveLabel(e, k)[1]]

\* The endpoints the selector string of policy value `policy` matches.
EndpointsMatching(policy) ==
    { e \in DOMAIN KnownEndpoints :
        Evaluate(Parse(policy.Selector).sel[1], EffectiveLabelsOf(e)) }

\* The endpoints whose profile ID list names `pid`.
EndpointsListing(pid) ==
    { e \in DOMAIN KnownEndpoints : pid \in Range(KnownEndpoints[e].ProfileIDs) }

-----------------------------------------------------------------------------
(* C1: between calls, a policy key is a key of policyIDToEndpointKeys      *)
(* exactly when it is a known policy whose selector matches the effective  *)
(* labels of at least one known endpoint, and the set stored for it is the *)
(* set of the endpoints it matches.                                         *)
ActivePoliciesAreMatchingPolicies ==
    ~aborted =>
        \A k \in PolicyKeys :
            LET matched == IF k \in DOMAIN allPolicies
                           THEN EndpointsMatching(allPolicies[k]) ELSE {}
            IN  /\ (k \in DOMAIN policyIDToEndpointKeys) <=> (matched # {})
                /\ k \in DOMAIN policyIDToEndpointKeys =>
                       policyIDToEndpointKeys[k] = matched

\* A policy matches both endpoints, one of them through an inherited label,
\* after a profile's labels changed.
ActivePolicyWitness ==
    /\ lastUpdate.kind = "ProfileLabels"
    /\ calls # <<>>
    /\ \E k \in DOMAIN policyIDToEndpointKeys :
          /\ Cardinality(policyIDToEndpointKeys[k]) = 2
          /\ \E e \in policyIDToEndpointKeys[k] :
                "role" \notin DOMAIN KnownEndpoints[e].Labels

(* C2: between calls, a profile ID is a key of profileIDToEndpointKeys     *)
(* exactly when at least one known endpoint lists it, and the set stored   *)
(* for it is the set of the endpoints that list it.                         *)
ActiveProfilesAreListedProfiles ==
    \A p \in ProfileIDs :
        /\ (p \in DOMAIN profileIDToEndpointKeys) <=> (EndpointsListing(p) # {})
        /\ p \in DOMAIN profileIDToEndpointKeys =>
               profileIDToEndpointKeys[p] = EndpointsListing(p)

\* Two endpoints list p1, one of them twice, and one endpoint has just
\* dropped p2.
ActiveProfileWitness ==
    /\ Cardinality(EndpointsListing("p1")) = 2
    /\ \E e \in DOMAIN KnownEndpoints : KnownEndpoints[e].ProfileIDs = <<"p1", "p1">>
    /\ "p2" \in DOMAIN before.profileIDToEndpointKeys
    /\ "p2" \notin DOMAIN profileIDToEndpointKeys

-----------------------------------------------------------------------------
(* The calls of the last OnUpdate, by callee and entity.                    *)

\* The UpdateRules calls for the policy or profile `key`, in order.
RuleCalls(kind, key) ==
    SelectSeq(calls, LAMBDA c : c.fn = "UpdateRules" /\ c.kind = kind /\ c.key = key)

\* The SendUpdateToFelix calls for the policy or profile `key`, in order.
FelixCalls(kind, key) ==
    SelectSeq(calls, LAMBDA c : c.fn = "SendUpdateToFelix" /\ c.kind = kind /\ c.key = key)

\* Every UpdateRules call, whatever its key.
AllRuleCalls == SelectSeq(calls, LAMBDA c : c.fn = "UpdateRules")

\* Every call on the rule listener or the Felix sender.
AllEmissions == SelectSeq(calls, LAMBDA c : c.fn \in {"UpdateRules", "SendUpdateToFelix"})

IsEndpointUpdate == lastUpdate.kind \in {"WorkloadEndpoint", "HostEndpoint"}

IsPresent(kind) == lastUpdate.kind = kind /\ lastUpdate.value # None

IsTombstone(kind) == lastUpdate.kind = kind /\ lastUpdate.value = None

WasActivePolicy(k) == k \in DOMAIN before.policyIDToEndpointKeys

IsActivePolicy(k) == k \in DOMAIN policyIDToEndpointKeys

WasActiveProfile(p) == p \in DOMAIN before.profileIDToEndpointKeys

IsActiveProfile(p) == p \in DOMAIN profileIDToEndpointKeys

\* An endpoint update made policy k active, and the listener was told once,
\* with k's rules.
FirstMatchTellsListenerOnce ==
    (IsEndpointUpdate /\ lastUpdate.value # None) =>
        \A k \in DOMAIN allPolicies :
            (~WasActivePolicy(k) /\ IsActivePolicy(k)) =>
                /\ Len(RuleCalls("policy", k)) = 1
                /\ RuleCalls("policy", k)[1].inbound = allPolicies[k].InboundRules
                /\ RuleCalls("policy", k)[1].outbound = allPolicies[k].OutboundRules

\* An endpoint update or delete made policy k inactive, and the listener was
\* told once, with no rules.
LastMatchTellsListenerOnce ==
    IsEndpointUpdate =>
        \A k \in DOMAIN allPolicies :
            (WasActivePolicy(k) /\ ~IsActivePolicy(k)) =>
                /\ Len(RuleCalls("policy", k)) = 1
                /\ RuleCalls("policy", k)[1].inbound = <<>>
                /\ RuleCalls("policy", k)[1].outbound = <<>>

(* C3, as claimed: a Policy update whose selector no endpoint matches makes *)
(* no rule-listener call; an endpoint update that makes the first match of  *)
(* a known policy makes one UpdateRules call with its rules; one that ends  *)
(* its last match makes one UpdateRules call with no rules.                 *)
PolicyLifecycleCallsAsClaimed ==
    /\ (~aborted /\ IsPresent("Policy")) =>
           (EndpointsMatching(lastUpdate.value[1]) = {} => AllRuleCalls = <<>>)
    /\ FirstMatchTellsListenerOnce
    /\ LastMatchTellsListenerOnce

(* C3, amended: a Policy update of a policy that was not active, whose      *)
(* selector no endpoint matches, makes no rule-listener call; the endpoint  *)
(* cases as claimed.                                                        *)
PolicyLifecycleCalls ==
    /\ (~aborted /\ IsPresent("Policy")) =>
           ((~WasActivePolicy(lastUpdate.key)
              /\ EndpointsMatching(lastUpdate.value[1]) = {}) => AllRuleCalls = <<>>)
    /\ FirstMatchTellsListenerOnce
    /\ LastMatchTellsListenerOnce

\* Deleting the only endpoint a known policy matched told the listener once.
PolicyLifecycleWitness ==
    /\ IsTombstone("HostEndpoint")
    /\ \E k \in DOMAIN allPolicies :
          /\ WasActivePolicy(k) /\ ~IsActivePolicy(k)
          /\ Len(RuleCalls("policy", k)) = 1
    /\ \E k \in DOMAIN allPolicies : IsActivePolicy(k)

EmissionsFollowActiveAndKnown ==
    \A i \in DOMAIN calls :
        LET c == calls[i]
        IN  /\ c.fn = "UpdateRules" =>
                 IF c.seen.active /\ c.seen.known
                 THEN /\ c.inbound = c.seen.cached[1].InboundRules
                      /\ c.outbound = c.seen.cached[1].OutboundRules
                 ELSE c.inbound = <<>> /\ c.outbound = <<>>
            /\ c.fn = "SendUpdateToFelix" =>
                 ((c.seen.active /\ c.seen.known) <=> (c.value # None))

\* One call told the listener of an entity active but not known, another of
\* one active and known with rules.
EmissionsWitness ==
    /\ \E i \in DOMAIN calls :
          /\ calls[i].fn = "UpdateRules"
          /\ calls[i].seen.active /\ ~calls[i].seen.known
    /\ \E i \in DOMAIN calls :
          /\ calls[i].fn = "UpdateRules"
          /\ calls[i].seen.active /\ calls[i].seen.known
          /\ calls[i].inbound # <<>>

(* C6: a Policy update with a value stores the value in allPolicies and    *)
(* registers its parsed selector with the index; if the policy is then in   *)
(* policyIDToEndpointKeys, the last UpdateRules call and the last Felix     *)
(* update for it in this OnUpdate carry the new value.                      *)
PolicyUpdateEmitsNewRules ==
    (~aborted /\ IsPresent("Policy")) =>
        LET k == lastUpdate.key
            v == lastUpdate.value[1]
            told == RuleCalls("policy", k)
            sent == FelixCalls("policy", k)
        IN  /\ k \in DOMAIN allPolicies /\ allPolicies[k] = v
            /\ k \in DOMAIN labelIndex.selectorsByID
            /\ labelIndex.selectorsByID[k] = Parse(v.Selector).sel[1]
            /\ IsActivePolicy(k) =>
                  /\ told # <<>>
                  /\ told[Len(told)].inbound = v.InboundRules
                  /\ told[Len(told)].outbound = v.OutboundRules
                  /\ sent # <<>>
                  /\ sent[Len(sent)].value = Some(JsonMarshalPolicy(v))

\* An active policy was given new rules and the selector it had.
PolicyUpdateWitness ==
    /\ ~aborted /\ IsPresent("Policy")
    /\ WasActivePolicy(lastUpdate.key) /\ IsActivePolicy(lastUpdate.key)
    /\ before.value # None
    /\ before.value[1].Selector = lastUpdate.value[1].Selector
    /\ before.value[1].InboundRules # lastUpdate.value[1].InboundRules

(* C7: a Policy tombstone removes the policy from allPolicies and its       *)
(* selector from the index, and leaves it out of policyIDToEndpointKeys; if *)
(* it was active, the calls made are one UpdateRules with no rules and one  *)
(* Felix update with a nil value, and if it was not, no call is made.       *)
PolicyTombstoneDeactivatesOnce ==
    IsTombstone("Policy") =>
        LET k == lastUpdate.key
        IN  /\ k \notin DOMAIN allPolicies
            /\ k \notin DOMAIN labelIndex.selectorsByID
            /\ ~IsActivePolicy(k)
            /\ IF WasActivePolicy(k)
               THEN /\ Len(calls) = 2
                    /\ calls[1].fn = "UpdateRules" /\ calls[1].kind = "policy"
                    /\ calls[1].key = k
                    /\ calls[1].inbound = <<>> /\ calls[1].outbound = <<>>
                    /\ calls[2].fn = "SendUpdateToFelix" /\ calls[2].kind = "policy"
                    /\ calls[2].key = k /\ calls[2].value = None
               ELSE calls = <<>>

\* The policy deleted matched two endpoints.
PolicyTombstoneWitness ==
    /\ IsTombstone("Policy")
    /\ WasActivePolicy(lastUpdate.key)
    /\ Cardinality(before.policyIDToEndpointKeys[lastUpdate.key]) = 2
    /\ calls # <<>>

(* C8: in an endpoint update, the listener and Felix are each told of a     *)
(* profile once if the profile went from inactive to active or from active  *)
(* to inactive, and not at all if it stayed as it was.                      *)
ProfileEmissionsOnActivationChange ==
    IsEndpointUpdate =>
        \A p \in ProfileIDs :
            LET n == IF WasActiveProfile(p) # IsActiveProfile(p) THEN 1 ELSE 0
            IN  /\ Len(RuleCalls("profile", p)) = n
                /\ Len(FelixCalls("profile", p)) = n

\* An endpoint dropped p1, which another endpoint still lists, and took up
\* p2, which none listed.
ProfileEmissionsWitness ==
    /\ IsEndpointUpdate /\ lastUpdate.value # None /\ before.value # None
    /\ "p1" \in Range(before.value[1].ProfileIDs)
    /\ "p1" \notin Range(lastUpdate.value[1].ProfileIDs)
    /\ IsActiveProfile("p1")
    /\ ~WasActiveProfile("p2") /\ IsActiveProfile("p2")
    /\ RuleCalls("profile", "p1") = <<>>
    /\ Len(RuleCalls("profile", "p2")) = 1

(* C9: a ProfileRules update sets or removes the profile's entry in         *)
(* allProfileRules and leaves both active maps as they were; if the profile *)
(* is active the calls made are one UpdateRules and one Felix update for    *)
(* it, with the new rules and their JSON for a value and with no rules and  *)
(* nil for a tombstone; if it is not active no call is made.                *)
ProfileRulesUpdateEmitsIfActive ==
    lastUpdate.kind = "ProfileRules" =>
        LET p == lastUpdate.key.Name
            present == lastUpdate.value # None
        IN  /\ present => (p \in DOMAIN allProfileRules
                           /\ allProfileRules[p] = lastUpdate.value[1])
            /\ ~present => p \notin DOMAIN allProfileRules
            /\ policyIDToEndpointKeys = before.policyIDToEndpointKeys
            /\ profileIDToEndpointKeys = before.profileIDToEndpointKeys
            /\ IF IsActiveProfile(p)
               THEN /\ Len(calls) = 2
                    /\ calls[1].fn = "UpdateRules" /\ calls[1].kind = "profile"
                    /\ calls[1].key = p
                    /\ calls[1].inbound =
                          (IF present THEN lastUpdate.value[1].InboundRules ELSE <<>>)
                    /\ calls[1].outbound =
                          (IF present THEN lastUpdate.value[1].OutboundRules ELSE <<>>)
                    /\ calls[2].fn = "SendUpdateToFelix" /\ calls[2].kind = "profile"
                    /\ calls[2].key = p
                    /\ calls[2].value =
                          (IF present
                           THEN Some(JsonMarshalProfileRules(lastUpdate.value[1]))
                           ELSE None)
               ELSE calls = <<>>

\* The rules of an active profile were deleted while a policy was active.
ProfileRulesWitness ==
    /\ IsTombstone("ProfileRules")
    /\ before.value # None
    /\ IsActiveProfile(lastUpdate.key.Name)
    /\ policyIDToEndpointKeys # EmptyMap
    /\ calls # <<>>

RECURSIVE SelectorKeys(_)
\* The label keys a selector refers to.
SelectorKeys(sel) ==
    CASE sel.op = "all" -> {}
      [] sel.op \in {"has", "eq", "ne", "in", "notin"} -> {sel.key}
      [] sel.op = "not" -> SelectorKeys(sel.arg)
      [] sel.op \in {"and", "or"} -> SelectorKeys(sel.left) \cup SelectorKeys(sel.right)

SelectorOf(k) == Parse(allPolicies[k].Selector).sel[1]

\* The calculator has endpoint e among those policy k matches.
CalculatorMatches(k, e) ==
    IsActivePolicy(k) /\ e \in policyIDToEndpointKeys[k]

\* A ProfileLabels update or delete that ends the last match of a policy
\* deactivates it, and one that makes its first match activates it: the
\* policy is active exactly if its selector matches an endpoint's effective
\* labels, and the listener is told once of the change.
ProfileLabelsDriveActivation ==
    lastUpdate.kind = "ProfileLabels" =>
        \A k \in DOMAIN allPolicies :
            /\ IsActivePolicy(k) <=> (EndpointsMatching(allPolicies[k]) # {})
            /\ (WasActivePolicy(k) /\ ~IsActivePolicy(k)) =>
                  /\ Len(RuleCalls("policy", k)) = 1
                  /\ RuleCalls("policy", k)[1].inbound = <<>>
                  /\ RuleCalls("policy", k)[1].outbound = <<>>
            /\ (~WasActivePolicy(k) /\ IsActivePolicy(k)) =>
                  /\ Len(RuleCalls("policy", k)) = 1
                  /\ RuleCalls("policy", k)[1].inbound = allPolicies[k].InboundRules
                  /\ RuleCalls("policy", k)[1].outbound = allPolicies[k].OutboundRules

\* An endpoint that sets the selector's keys itself is matched on its own
\* labels, whatever its profiles' labels are.
OwnLabelsOverride ==
    \A k \in DOMAIN allPolicies, e \in DOMAIN KnownEndpoints :
        SelectorKeys(SelectorOf(k)) \subseteq DOMAIN KnownEndpoints[e].Labels =>
            (CalculatorMatches(k, e) <=>
                Evaluate(SelectorOf(k), KnownEndpoints[e].Labels))

(* C10, as claimed: if endpoint E lists profile P and sets none of the keys *)
(* the selector of policy K refers to, K matches E exactly when P's labels  *)
(* satisfy the selector; ProfileLabels updates activate and deactivate K    *)
(* accordingly; E's own labels override inherited ones.                     *)
InheritedLabelsAsClaimed ==
    ~aborted =>
        /\ \A k \in DOMAIN allPolicies, e \in DOMAIN KnownEndpoints :
              \A p \in Range(KnownEndpoints[e].ProfileIDs) :
                  SelectorKeys(SelectorOf(k)) \cap DOMAIN KnownEndpoints[e].Labels = {} =>
                      (CalculatorMatches(k, e) <=>
                          Evaluate(SelectorOf(k), LabelsOfProfile(p)))
        /\ ProfileLabelsDriveActivation
        /\ OwnLabelsOverride

(* C10, amended: the same, for an endpoint E whose only profile is P.       *)
InheritedLabelsDecideMatch ==
    ~aborted =>
        /\ \A k \in DOMAIN allPolicies, e \in DOMAIN KnownEndpoints :
              \A p \in Range(KnownEndpoints[e].ProfileIDs) :
                  (/\ Range(KnownEndpoints[e].ProfileIDs) = {p}
                   /\ SelectorKeys(SelectorOf(k)) \cap DOMAIN KnownEndpoints[e].Labels = {}) =>
                      (CalculatorMatches(k, e) <=>
                          Evaluate(SelectorOf(k), LabelsOfProfile(p)))
        /\ ProfileLabelsDriveActivation
        /\ OwnLabelsOverride

\* P's labels went from role db to role web; the policy selecting role db
\* matched only an endpoint that inherits from P alone, and was deactivated,
\* while another endpoint that lists P sets role itself.
InheritedLabelsWitness ==
    /\ IsPresent("ProfileLabels")
    /\ before.value = Some([role |-> "db"])
    /\ lastUpdate.value = Some([role |-> "web"])
    /\ \E k \in DOMAIN allPolicies :
          /\ allPolicies[k].Selector = "role == \"db\""
          /\ WasActivePolicy(k) /\ ~IsActivePolicy(k)
          /\ Cardinality(before.policyIDToEndpointKeys[k]) = 1
          /\ Len(RuleCalls("policy", k)) = 1
    /\ \E e \in DOMAIN KnownEndpoints :
          /\ KnownEndpoints[e].ProfileIDs = <<lastUpdate.key.Name>>
          /\ KnownEndpoints[e].Labels = NoLabels
    /\ \E e \in DOMAIN KnownEndpoints :
          /\ lastUpdate.key.Name \in Range(KnownEndpoints[e].ProfileIDs)
          /\ "role" \in DOMAIN KnownEndpoints[e].Labels

-----------------------------------------------------------------------------
\* allPolicies holds, per key, the value of the last Policy update.
PolicyCacheIsLatestUpdate ==
    /\ DOMAIN allPolicies = DOMAIN datastore.Policy
    /\ \A k \in DOMAIN allPolicies : allPolicies[k] = datastore.Policy[k]

\* allProfileRules holds, per profile ID, the value of the last ProfileRules
\* update.
ProfileRulesCacheIsLatestUpdate ==
    /\ ProfileKeys(DOMAIN allProfileRules) = DOMAIN datastore.ProfileRules
    /\ \A p \in DOMAIN allProfileRules :
          allProfileRules[p] = datastore.ProfileRules[[Name |-> p]]

(* C11: the two caches hold the value of the most recent Policy and         *)
(* ProfileRules update per key (nothing for a tombstone or a key never      *)
(* seen); no other update and no call on the rule listener or Felix sender  *)
(* changes them, the lists handed to the listener sharing nothing with the  *)
(* cache.                                                                   *)
CachesHoldLatestUpdates ==
    /\ PolicyCacheIsLatestUpdate
    /\ ProfileRulesCacheIsLatestUpdate

-----------------------------------------------------------------------------
\* The update the call was given is a Policy update whose selector string
\* the parser rejects.
IsBadSelectorUpdate(update) ==
    /\ update.kind = "Policy"
    /\ update.value # None
    /\ Parse(update.value[1].Selector).err # None

(* C12: an OnUpdate with a present Policy whose selector does not parse     *)
(* ends in glog.Fatal: the index is left as it was (the selector is not     *)
(* registered), the active maps are unchanged, and no call is made on the   *)
(* rule listener, the match listener or the Felix sender.                   *)
BadSelectorAborts ==
    [][ (lastUpdate.kind = "none" /\ IsBadSelectorUpdate(lastUpdate')) =>
            /\ aborted'
            /\ labelIndex' = labelIndex
            /\ policyIDToEndpointKeys' = policyIDToEndpointKeys
            /\ calls' = <<>>
            /\ lastListener' = lastListener
            /\ lastFelix' = lastFelix ]_vars

\* A policy that was active was updated to a selector that does not parse:
\* the process aborted without a call, the index still holding the old
\* selector.
BadSelectorWitness ==
    /\ IsBadSelectorUpdate(lastUpdate)
    /\ aborted
    /\ calls = <<>>
    /\ WasActivePolicy(lastUpdate.key)
    /\ lastUpdate.key \in DOMAIN labelIndex.selectorsByID
    /\ Parse(before.value[1].Selector).err = None

-----------------------------------------------------------------------------
\* The positions in `calls` of the OnPolicyMatch calls for policy k and
\* endpoint e.
MatchCalls(k, e) ==
    { n \in DOMAIN calls :
        /\ calls[n].fn = "OnPolicyMatch"
        /\ calls[n].key = k
        /\ calls[n].endpointKey = e }

\* The positions in `calls` of the emissions (either sink) for policy k.
PolicyEmissions(k) ==
    { n \in DOMAIN calls :
        /\ calls[n].fn \in {"UpdateRules", "SendUpdateToFelix"}
        /\ calls[n].kind = "policy"
        /\ calls[n].key = k }

\* The last OnUpdate started the match of policy k and endpoint e.
MatchStarted(k, e) ==
    /\ IsActivePolicy(k) /\ e \in policyIDToEndpointKeys[k]
    /\ ~(WasActivePolicy(k) /\ e \in before.policyIDToEndpointKeys[k])

(* C13: in every OnUpdate the match listener gets exactly one               *)
(* OnPolicyMatch(k, e) for each match (k, e) that started, whether or not   *)
(* k was active already, and none for any other pair (so none for a match   *)
(* that stopped); where the match made k active, the UpdateRules and        *)
(* SendUpdateToFelix of the activation come before the OnPolicyMatch.       *)
MatchListenerToldOfEveryStart ==
    (lastUpdate.kind # "none" /\ ~aborted) =>
        \A k \in PolicyKeys, e \in EndpointKeys :
            /\ Cardinality(MatchCalls(k, e)) = IF MatchStarted(k, e) THEN 1 ELSE 0
            /\ (~WasActivePolicy(k) /\ MatchStarted(k, e)) =>
                  \A n \in MatchCalls(k, e) :
                      /\ \E m \in PolicyEmissions(k) :
                            m < n /\ calls[m].fn = "UpdateRules" /\ calls[m].seen.active
                      /\ \E m \in PolicyEmissions(k) :
                            m < n /\ calls[m].fn = "SendUpdateToFelix"
                                  /\ calls[m].seen.active

\* One endpoint update started a match of a policy that was active already
\* (one OnPolicyMatch, no emission for it) and made another policy active.
MatchListenerWitness ==
    /\ IsPresent("HostEndpoint")
    /\ \E k1, k2 \in PolicyKeys :
          /\ WasActivePolicy(k1) /\ MatchStarted(k1, lastUpdate.key)
          /\ Cardinality(MatchCalls(k1, lastUpdate.key)) = 1
          /\ PolicyEmissions(k1) = {}
          /\ ~WasActivePolicy(k2) /\ MatchStarted(k2, lastUpdate.key)
          /\ Cardinality(MatchCalls(k2, lastUpdate.key)) = 1

-----------------------------------------------------------------------------
\* Every SendUpdateToFelix call of the last OnUpdate.
AllFelixCalls == SelectSeq(calls, LAMBDA c : c.fn = "SendUpdateToFelix")

\* The keys Felix knows policies and profiles' rules by.
PolicyAndProfileFelixKeys ==
    { PolicyFelixKey(k) : k \in PolicyKeys } \cup { ProfileFelixKey(p) : p \in ProfileIDs }

\* The values of the endpoint updates the streams carry.
EndpointPayloads ==
    [Labels : LabelMaps, ProfileIDs : ProfileIDLists]

(* C14: every update sent to Felix is keyed by a policy key or a profile    *)
(* key, never by a workload or host endpoint key, and its value is nil or   *)
(* the JSON form of the cached policy or profile rules, never an endpoint's *)
(* value; so is everything Felix has ever been sent.                        *)
OnlyPoliciesAndProfilesReachFelix ==
    /\ \A n \in DOMAIN AllFelixCalls :
          LET c == AllFelixCalls[n]
          IN  /\ c.kind \in {"policy", "profile"}
              /\ c.kind = "policy" => c.key \in PolicyKeys
                                      /\ c.felixKey = PolicyFelixKey(c.key)
              /\ c.kind = "profile" => c.key \in ProfileIDs
                                       /\ c.felixKey = ProfileFelixKey(c.key)
              /\ c.value # None =>
                    /\ c.value[1] \notin EndpointPayloads
                    /\ c.seen.cached # None
                    /\ c.kind = "policy" =>
                          c.value[1] = JsonMarshalPolicy(c.seen.cached[1])
                    /\ c.kind = "profile" =>
                          c.value[1] = JsonMarshalProfileRules(c.seen.cached[1])
    /\ DOMAIN lastFelix \subseteq PolicyAndProfileFelixKeys
    /\ \A fk \in DOMAIN lastFelix :
          lastFelix[fk] # None => lastFelix[fk][1] \notin EndpointPayloads

\* An endpoint's update made a profile and a policy active, and Felix was
\* sent the rules of both.
FelixKeysWitness ==
    /\ IsEndpointUpdate /\ lastUpdate.value # None
    /\ \E n \in DOMAIN AllFelixCalls :
          AllFelixCalls[n].kind = "policy" /\ AllFelixCalls[n].value # None
    /\ \E n \in DOMAIN AllFelixCalls :
          AllFelixCalls[n].kind = "profile" /\ AllFelixCalls[n].value # None

-----------------------------------------------------------------------------
(* C15: an OnUpdate whose key is of none of the five handled types returns  *)
(* with the two caches, the two active maps, the endpoint -> profile IDs    *)
(* map and the label index unchanged, and with no call on the rule          *)
(* listener, the match listener or the Felix sender.                        *)
UnhandledKeyIsIgnored ==
    [][ (lastUpdate.kind = "none" /\ lastUpdate'.kind = "Other") =>
            /\ UNCHANGED <<allPolicies, allProfileRules, policyIDToEndpointKeys,
                           profileIDToEndpointKeys, endpointKeyToProfileIDs,
                           labelIndex, lastListener, lastFelix>>
            /\ calls' = <<>>
            /\ ~aborted' ]_vars

\* An update for a tier's key, with a value, reached a calculator that had
\* an active policy and an active profile, and no call was made.
UnhandledKeyWitness ==
    /\ IsPresent("Other")
    /\ calls = <<>>
    /\ ~aborted
    /\ DOMAIN policyIDToEndpointKeys # {}
    /\ DOMAIN profileIDToEndpointKeys # {}
    /\ DOMAIN allPolicies # {}

-----------------------------------------------------------------------------
(* The selector's canonical form.                                           *)

\* The canonicalisation tests' inputs that are spellings of All.
SpellingsOfAll == { <<>>, <<" ", "a", "l", "l", "(", ")", " ">>,
                    <<" ", "(", "a", "l", "l", "(", ")", " ", ")">> }

\* C16: for every text Parse accepts, parsing the canonical text succeeds,
\* the round-tripped selector has the same canonical text and the same
\* UniqueId as the original, each canonicalisation test's input has the
\* canonical text the test expects, and "", " all() " and " (all() )" all
\* have the canonical text all() and one UniqueId.
CanonicalFormRoundTrips ==
    /\ selTest.stage # "roundTripFailed"
    /\ selTest.stage = "roundTripped" =>
          /\ selTest.canon2 = selTest.canon
          /\ selTest.uid2 = selTest.uid
    /\ selTest.stage \in {"canonical", "roundTripped"} =>
          /\ \A t \in CanonicalisationTests :
                selTest.text = t.input => selTest.canon = t.expected
          /\ selTest.text \in SpellingsOfAll =>
                /\ selTest.canon = <<"a", "l", "l", "(", ")">>
                /\ selTest.uid = UniqueId(SelAll)

\* A text that is not canonical has been parsed, written in canonical form
\* (with its negated conjunction in parentheses), and parsed and written
\* again.
RoundTripWitness ==
    /\ selTest.stage = "roundTripped"
    /\ selTest.text = <<"!", " ", "(", "a", " ", "=", "=", " ", "\"", "b", "\"",
                        "&", "&", "!", " ", "c", " ", "!", "=", " ", "\"", "d",
                        "\"", ")">>
    /\ selTest.canon # selTest.text
    /\ selTest.sel.tree = SelNot(SelAnd(SelEqual(<<"a">>, <<"b">>),
                                        SelNot(SelNotEqual(<<"c">>, <<"d">>))))
    /\ selTest.roundTripped.tree = selTest.sel.tree
    /\ selTest.canon2 = selTest.canon

\* C17: for every text Parse accepts and every label map, the selector
\* parsed from the text and the selector parsed from its canonical text
\* evaluate to the same result.
EvaluationStableUnderCanonicalisation ==
    selTest.stage = "evaluated" => selTest.matches2 = selTest.matches

\* A disjunction inside a conjunction, spelled with padding, has been
\* written in canonical form, parsed again and evaluated on labels that it
\* does not match although its first disjunct does.
StableEvaluationWitness ==
    /\ selTest.stage = "evaluated"
    /\ selTest.sel.tree =
          SelAnd(SelOr(SelHas(<<"a">>), SelNot(SelEqual(<<"c">>, <<"d">>))),
                 SelNot(SelEqual(<<"c">>, <<"d">>)))
    /\ selTest.canon # selTest.text
    /\ selTest.labels = (<<"a">> :> <<"b">>) @@ (<<"c">> :> <<"d">>)
    /\ ~selTest.matches
    /\ ~selTest.matches2

-----------------------------------------------------------------------------
(* The evaluator.                                                           *)

\* C18: on a label map without the key, k == v, k in {...} and has(k) are
\* false and k != v and k not in {...} are true; with the key present,
\* k == v compares the values, k in S looks the value up, k != v is the
\* negation of k == v and k not in S the negation of k in S; the empty
\* selector and all() are true on every label map, the empty one included;
\* and each selectorTest matches its expMatches and none of its
\* expNonMatches.
EvaluatorSemantics ==
    selTest.stage = "evaluated" =>
        LET tree   == selTest.sel.tree
            labels == selTest.labels
            leaf   == tree.op \in {"eq", "ne", "in", "notin", "has"}
        IN  /\ leaf /\ tree.key \notin DOMAIN labels =>
                  selTest.matches = (tree.op \in {"ne", "notin"})
            /\ leaf /\ tree.key \in DOMAIN labels =>
                  /\ tree.op = "has" => selTest.matches
                  /\ tree.op = "eq" =>
                        selTest.matches = (labels[tree.key] = tree.value)
                  /\ tree.op = "in" =>
                        selTest.matches = (labels[tree.key] \in Range(tree.values))
                  /\ tree.op = "ne" =>
                        selTest.matches =
                            ~Evaluate(SelEqual(tree.key, tree.value), labels)
                  /\ tree.op = "notin" =>
                        selTest.matches =
                            ~Evaluate(SelIn(tree.key, tree.values), labels)
            /\ selTest.text \in {<<>>, <<"a", "l", "l", "(", ")">>} =>
                  tree = SelAll /\ selTest.matches
            /\ \A t \in SelectorTests :
                  t.sel = selTest.text =>
                      /\ labels \in t.expMatches => selTest.matches
                      /\ labels \in t.expNonMatches => ~selTest.matches

\* a != "a" has been evaluated on the empty label map, and matches it.
MissingKeyWitness ==
    /\ selTest.stage = "evaluated"
    /\ selTest.sel.tree = SelNotEqual(<<"a">>, <<"a">>)
    /\ selTest.labels = NoLabels
    /\ selTest.matches

-----------------------------------------------------------------------------
(* The policy key's path.                                                   *)

\* C19: defaultPath returns an empty path and an
\* ErrorInsufficientIdentifiers naming "tier" when Tier is empty, otherwise
\* one naming "name" when Name is empty; it returns a path and no error
\* exactly when both are non-empty; and defaultDeletePath returns what
\* defaultPath returns.
PolicyKeyPaths ==
    /\ keyTest.stage = "key" /\ keyTest.path # None =>
          LET key    == keyTest.key
              result == keyTest.path[1]
          IN  /\ key.Tier = <<>> =>
                    /\ result.path = <<>>
                    /\ result.err = Some(ErrorInsufficientIdentifiers("tier"))
              /\ key.Tier # <<>> /\ key.Name = <<>> =>
                    /\ result.path = <<>>
                    /\ result.err = Some(ErrorInsufficientIdentifiers("name"))
              /\ (result.path # <<>> /\ result.err = None)
                    <=> (key.Tier # <<>> /\ key.Name # <<>>)
    /\ keyTest.stage = "key" /\ keyTest.path # None /\ keyTest.deletePath # None =>
          keyTest.deletePath = keyTest.path

\* Both paths of a key with neither tier nor name have been asked for, and
\* both answers name the tier.
PolicyKeyPathsWitness ==
    /\ keyTest.stage = "key"
    /\ keyTest.key = [Name |-> <<>>, Tier |-> <<>>]
    /\ keyTest.path = Some(PathResult(<<>>, Some(ErrorInsufficientIdentifiers("tier"))))
    /\ keyTest.deletePath = keyTest.path

-----------------------------------------------------------------------------
(* Active policies are known policies.                                      *)

\* The policy emissions of the last OnUpdate made while the policy was
\* active.
ActivePolicyEmissions ==
    { n \in DOMAIN calls :
        /\ calls[n].fn \in {"UpdateRules", "SendUpdateToFelix"}
        /\ calls[n].kind = "policy"
        /\ calls[n].seen.active }

\* C20: whenever OnUpdate has returned, every key of policyIDToEndpointKeys
\* is a key of allPolicies, and every emission for a policy that is active
\* found the policy in allPolicies and carries its body: the cached rules
\* to the rule listener, a value (never nil) to Felix.
ActivePoliciesAreKnown ==
    /\ DOMAIN policyIDToEndpointKeys \subseteq DOMAIN allPolicies
    /\ \A n \in ActivePolicyEmissions :
          LET c == calls[n]
          IN  /\ c.seen.known
              /\ c.fn = "UpdateRules" =>
                    /\ c.inbound = c.seen.cached[1].InboundRules
                    /\ c.outbound = c.seen.cached[1].OutboundRules
              /\ c.fn = "SendUpdateToFelix" => c.value # None

\* An endpoint update has just activated a known policy: the policy is in
\* both maps and the listener was handed its rules.
ActiveKnownPolicyWitness ==
    /\ lastUpdate.kind \in {"WorkloadEndpoint", "HostEndpoint"}
    /\ \E k \in PolicyKeys :
          /\ k \notin DOMAIN before.policyIDToEndpointKeys
          /\ k \in DOMAIN policyIDToEndpointKeys
          /\ k \in DOMAIN allPolicies
          /\ \E n \in ActivePolicyEmissions :
                /\ calls[n].key = k
                /\ calls[n].fn = "UpdateRules"
                /\ calls[n].inbound = allPolicies[k].InboundRules
                /\ calls[n].inbound # <<>>

-----------------------------------------------------------------------------
(* Emissions of one Policy update.                                          *)

\* The positions in `calls` of the calls of fn for policy k.
PolicyCallsOf(fn, k) ==
    { n \in DOMAIN calls :
        /\ calls[n].fn = fn
        /\ calls[n].kind = "policy"
        /\ calls[n].key = k }

\* C21: during one OnUpdate for a present Policy k, UpdateRules is called
\* at most once for k and Felix is sent at most one update for k.
PolicyUpdateEmitsAtMostOnce ==
    (lastUpdate.kind = "Policy" /\ lastUpdate.value # None) =>
        /\ Cardinality(PolicyCallsOf("UpdateRules", lastUpdate.key)) <= 1
        /\ Cardinality(PolicyCallsOf("SendUpdateToFelix", lastUpdate.key)) <= 1

-----------------------------------------------------------------------------
(* The order of an endpoint update's emissions.                             *)

\* Call n of the last OnUpdate is an emission for a profile made while the
\* profile was (active = TRUE) or was not (FALSE) in profileIDToEndpointKeys.
IsProfileEmission(n, active) ==
    /\ calls[n].fn \in {"UpdateRules", "SendUpdateToFelix"}
    /\ calls[n].kind = "profile"
    /\ calls[n].seen.active = active

\* Call n of the last OnUpdate is an emission for a policy.
IsPolicyEmission(n) ==
    /\ calls[n].fn \in {"UpdateRules", "SendUpdateToFelix"}
    /\ calls[n].kind = "policy"

\* C22: within one endpoint update, present or tombstone, no profile
\* activation emission comes after a profile deactivation emission, and no
\* profile emission comes after a policy emission.
EndpointEmissionsOrdered ==
    lastUpdate.kind \in {"WorkloadEndpoint", "HostEndpoint"} =>
        \A i, j \in DOMAIN calls :
            i < j =>
                /\ ~(IsProfileEmission(i, FALSE) /\ IsProfileEmission(j, TRUE))
                /\ ~(IsPolicyEmission(i)
                      /\ (IsProfileEmission(j, TRUE) \/ IsProfileEmission(j, FALSE)))

\* One host endpoint update has activated a profile, then deactivated
\* another, then changed a policy's activation, in that order.
OrderedEmissionsWitness ==
    /\ lastUpdate.kind = "HostEndpoint"
    /\ \E i, j, k \in DOMAIN calls :
          /\ i < j /\ j < k
          /\ IsProfileEmission(i, TRUE)
          /\ IsProfileEmission(j, FALSE)
          /\ IsPolicyEmission(k)

-----------------------------------------------------------------------------
(* What Felix is sent for a policy, over the whole run.                     *)

\* The positions before n in cs of the updates sent to Felix for the key
\* that call n is for.
EarlierFelixUpdates(cs, n) ==
    { m \in 1..(n - 1) :
        /\ cs[m].fn = "SendUpdateToFelix"
        /\ cs[m].felixKey = cs[n].felixKey }

\* The value Felix last received for call n's key before call n, given its
\* record `last` from before the OnUpdate; None if it received none or a nil.
FelixValueBefore(last, cs, n) ==
    LET earlier == EarlierFelixUpdates(cs, n)
    IN  IF earlier # {}
        THEN cs[CHOOSE m \in earlier : \A x \in earlier : x <= m].value
        ELSE IF cs[n].felixKey \in DOMAIN last THEN last[cs[n].felixKey]
        ELSE None

\* C23: for every policy key, every nil update Felix is sent comes right
\* after (among the updates for that key) an update carrying the policy
\* body: never first, never after another nil.
FelixDeletesFollowBodies ==
    [][\A n \in DOMAIN calls' :
          (/\ lastUpdate.kind = "none"
           /\ calls'[n].fn = "SendUpdateToFelix"
           /\ calls'[n].kind = "policy"
           /\ calls'[n].value = None)
          => FelixValueBefore(lastFelix, calls', n) # None]_vars

\* A policy that Felix holds no body for has been activated, sent to Felix
\* with its body, and then deactivated: the last update sent for it is nil.
FelixDeleteWitness ==
    \E k \in PolicyKeys :
        /\ k \in DOMAIN before.policyIDToEndpointKeys
        /\ k \notin DOMAIN policyIDToEndpointKeys
        /\ PolicyCallsOf("SendUpdateToFelix", k) # {}
        /\ \A n \in PolicyCallsOf("SendUpdateToFelix", k) : calls[n].value = None
        /\ lastFelix[PolicyFelixKey(k)] = None

-----------------------------------------------------------------------------
(* Endpoint updates that bring nothing new.                                 *)

\* The update is for an endpoint and repeats what the datastore held for
\* its key: the same value, or a tombstone for a key it did not hold.
IsRepeatedEndpointUpdate(update, held) ==
    /\ update.kind \in {"WorkloadEndpoint", "HostEndpoint"}
    /\ update.value = held

\* C24: an endpoint update equal to the endpoint's current value, or a
\* tombstone for an endpoint that is not known, makes no call on the rule
\* listener, the match listener or Felix and leaves the two active maps and
\* the two caches as they were.
RepeatedEndpointUpdateIsNoOp ==
    [][(lastUpdate.kind = "none" /\ IsRepeatedEndpointUpdate(lastUpdate', before'.value))
       => /\ calls' = <<>>
          /\ ~aborted'
          /\ UNCHANGED <<policyIDToEndpointKeys, profileIDToEndpointKeys,
                         allPolicies, allProfileRules>>]_vars

\* An endpoint that lists an active profile and matches an active policy
\* has been delivered again with the same value, and nothing was called.
RepeatedEndpointWitness ==
    /\ IsRepeatedEndpointUpdate(lastUpdate, before.value)
    /\ lastUpdate.value # None
    /\ lastUpdate.value[1].ProfileIDs # <<>>
    /\ \E p \in DOMAIN profileIDToEndpointKeys :
          lastUpdate.key \in profileIDToEndpointKeys[p]
    /\ \E k \in DOMAIN policyIDToEndpointKeys :
          lastUpdate.key \in policyIDToEndpointKeys[k]
    /\ calls = <<>>

-----------------------------------------------------------------------------
(* No active entity without an endpoint.                                    *)

\* C25: whenever OnUpdate has returned, no key of policyIDToEndpointKeys and
\* no key of profileIDToEndpointKeys is mapped to an empty set of
\* endpoints, and an entity whose last endpoint the update removed is no
\* longer a key.
NoActiveKeyWithoutEndpoints ==
    /\ \A k \in DOMAIN policyIDToEndpointKeys : policyIDToEndpointKeys[k] # {}
    /\ \A p \in DOMAIN profileIDToEndpointKeys : profileIDToEndpointKeys[p] # {}

\* An endpoint's tombstone has removed the last endpoint of a policy and of
\* a profile, and both keys are gone from the maps.
LastEndpointRemovedWitness ==
    /\ lastUpdate.kind \in {"WorkloadEndpoint", "HostEndpoint"}
    /\ lastUpdate.value = None
    /\ \E k \in DOMAIN before.policyIDToEndpointKeys :
          /\ before.policyIDToEndpointKeys[k] = {lastUpdate.key}
          /\ k \notin DOMAIN policyIDToEndpointKeys
    /\ \E p \in DOMAIN before.profileIDToEndpointKeys :
          /\ before.profileIDToEndpointKeys[p] = {lastUpdate.key}
          /\ p \notin DOMAIN profileIDToEndpointKeys

=============================================================================
